---- MODULE Spec2Model ----
(***************************************************************************)
(* Niche evaluation and stress-testing engine of KDP Strategist.           *)
(*                                                                         *)
(* Numbers.  Scores are Python floats on a 0-100 scale.  The model holds   *)
(* a score s as the integer 100*s (hundredths), so 62.0 is 6200 and the    *)
(* multipliers 1.2, 0.7, ... are applied as 12/10, 7/10, ... without       *)
(* rounding.  Ratings (0.0-5.0) are held in tenths.                        *)
(*                                                                         *)
(* Exceptions.  A Python call either returns a value, returns None, or     *)
(* raises; the model makes the three outcomes explicit (Ok, None, Raise).  *)
(*                                                                         *)
(* Dictionaries.  A Python dict is a record with a field keys (the set of  *)
(* keys present) and one field per key the code reads; d.get(k, default)   *)
(* is Get(d, k, default).                                                  *)
(***************************************************************************)
EXTENDS Integers, Sequences, FiniteSets, TLC

VARIABLES
    pc,               \* position of the evaluation (find_profitable_niches)
    exc,              \* the exception that ended the evaluation, or "none"
    min_score,        \* min_profitability_score, hundredths
    max_competition,  \* max_competition_level
    limit,            \* limit
    trend_analyses,   \* keyword -> TrendAnalysis returned by the trend provider
    promising,        \* promising_keywords
    competition_data, \* keyword -> competition summary
    niches,           \* the Niche objects (niche_candidates), in creation order
    scored,           \* scored_niches: indices into niches
    top,              \* top_niches = scored_niches[:limit]
    calls,            \* the last calls of the NicheScorer class methods
    stress_pc,        \* position of the stress test (niche_stress_test)
    baseline_niche,   \* niche: what _create_niche_for_testing returned
    stress_trend,     \* trend_analysis of niche_stress_test
    scenarios_to_test,\* scenarios_to_test
    attempted,        \* per scenario simulated so far, how its simulation ended
    scenario_results, \* scenario_results
    stress_result,    \* what niche_stress_test returned
    batch_pc,         \* position of _batch_analyze_trends
    awaitable,        \* whether the client's get_trend_analysis returns an awaitable
    batch_keywords,   \* len(keywords)
    batch_i,          \* i, the offset of the current batch
    lookup,           \* per keyword position, the state of its trend lookup
    started,          \* per keyword position, how many lookups were started
    delays,           \* how many inter-batch delays have elapsed
    analysed,         \* the keyword positions with an entry in trend_analyses
    batch_exc,        \* the exception that left _batch_analyze_trends, or "none"
    cache,            \* MemoryCacheBackend.cache: key -> entry
    access_times,     \* MemoryCacheBackend.access_times, in insertion order
    max_size,         \* MemoryCacheBackend.max_size
    now,              \* what datetime.now() returns
    request_pc,       \* position of KeepaClient._make_request
    max_retries,      \* config.max_retries
    retry_delay,      \* config.retry_delay, tenths of a second
    attempt,          \* attempt, the loop variable of _make_request
    responses,        \* what each attempt so far met
    sleeps,           \* the arguments of time.sleep so far
    response          \* what _make_request returned

evaluationVars == <<pc, exc, min_score, max_competition, limit, trend_analyses,
                    promising, competition_data, niches, scored, top, calls>>

stressVars == <<stress_pc, baseline_niche, stress_trend, scenarios_to_test,
                attempted, scenario_results, stress_result>>

batchVars == <<batch_pc, awaitable, batch_keywords, batch_i, lookup, started,
               delays, analysed, batch_exc>>

cacheVars == <<cache, access_times, max_size, now>>

requestVars == <<request_pc, max_retries, retry_delay, attempt, responses,
                 sleeps, response>>

dataVars == <<cache, access_times, max_size, now,
              request_pc, max_retries, retry_delay, attempt, responses,
              sleeps, response>>

vars == <<pc, exc, min_score, max_competition, limit, trend_analyses,
          promising, competition_data, niches, scored, top, calls,
          stress_pc, baseline_niche, stress_trend, scenarios_to_test,
          attempted, scenario_results, stress_result,
          batch_pc, awaitable, batch_keywords, batch_i, lookup, started,
          delays, analysed, batch_exc,
          cache, access_times, max_size, now,
          request_pc, max_retries, retry_delay, attempt, responses, sleeps,
          response>>

----------------------------------------------------------------------------
(* Outcomes of a call *)

Ok(v) == [kind |-> "ok", v |-> v, exc |-> "none"]

None == [kind |-> "none", v |-> 0, exc |-> "none"]

Raise(e) == [kind |-> "raise", v |-> 0, exc |-> e]

Min(a, b) == IF a <= b THEN a ELSE b

Max(a, b) == IF a >= b THEN a ELSE b

Get(d, k, default) == IF k \in d.keys THEN d[k] ELSE default

Truthy(d) == d.type # "NoneType" /\ (d.type = "dict" => d.keys # {})

----------------------------------------------------------------------------
(* models/niche_model.py *)

_determine_competition_level(score) ==
    IF score <= 3000 THEN "low"
    ELSE IF score <= 6000 THEN "medium"
    ELSE "high"

_determine_profitability_tier(score) ==
    IF score >= 8000 THEN "high"
    ELSE IF score >= 6000 THEN "medium"
    ELSE "low"

\* Niche._validate_scores is called by __post_init__ but defined nowhere in
\* the sources at hand; the data model fixes the four scores to [0,100].
_validate_scores(n) ==
    /\ 0 <= n.competition_score_numeric /\ n.competition_score_numeric <= 10000
    /\ 0 <= n.profitability_score_numeric /\ n.profitability_score_numeric <= 10000
    /\ 0 <= n.market_size_score /\ n.market_size_score <= 10000
    /\ 0 <= n.confidence_score /\ n.confidence_score <= 10000

\* Niche._validate_price_range, likewise: min < max, both > 0 (cents).
_validate_price_range(n) ==
    /\ 0 < n.recommended_price_range[1]
    /\ n.recommended_price_range[1] < n.recommended_price_range[2]

\* The dataclass defaults of the two categorical fields.
DefaultCompetitionLevel == "medium"

DefaultProfitabilityTier == "medium"

\* Niche.__post_init__ on the fields given to the constructor: validation,
\* then the tiers are derived only for a score that is not 0.0.
Niche__post_init__(n) ==
    IF ~(_validate_scores(n) /\ _validate_price_range(n)) THEN Raise("ValueError")
    ELSE Ok([n EXCEPT
            !.competition_level =
                IF n.competition_score_numeric # 0
                THEN _determine_competition_level(n.competition_score_numeric)
                ELSE n.competition_level,
            !.profitability_tier =
                IF n.profitability_score_numeric # 0
                THEN _determine_profitability_tier(n.profitability_score_numeric)
                ELSE n.profitability_tier])

----------------------------------------------------------------------------
(* agent/tools/niche_discovery.py: NicheScorer *)

\* NicheScorer.WEIGHTS, in hundredths.
WEIGHTS ==
    [trend_score |-> 25, competition_score |-> 30, market_size_score |-> 20,
     seasonality_score |-> 15, content_gap_score |-> 10]

LOW_COMPETITION_THRESHOLD == 10

MEDIUM_COMPETITION_THRESHOLD == 50

HIGH_COMPETITION_THRESHOLD == 100

HIGH_REVIEW_THRESHOLD == 1000

MEDIUM_REVIEW_THRESHOLD == 100

LOW_REVIEW_THRESHOLD == 10

\* 3.5 and 4.5, in tenths
LOW_RATING_THRESHOLD == 35

HIGH_RATING_THRESHOLD == 45

\* _score_trend_strength: the direction and strength multipliers, in tenths.
DirectionMultiplier(direction) ==
    IF direction = "rising" THEN 12
    ELSE IF direction = "declining" THEN 7
    ELSE 10

StrengthMultiplier(strength) ==
    CASE strength = "very_strong" -> 13
      [] strength = "strong" -> 11
      [] strength = "moderate" -> 10
      [] strength = "weak" -> 8
      [] strength = "very_weak" -> 5
      [] OTHER -> 10

_score_trend_strength(trend_analysis) ==
    IF ~trend_analysis.present THEN None
    ELSE Ok(Min(10000, trend_analysis.trend_score
                       * DirectionMultiplier(trend_analysis.direction)
                       * StrengthMultiplier(trend_analysis.strength)))

\* cls as a @classmethod would bind it
ClsIsBoundTrue == TRUE

\* The name cls inside _score_competition_level.  The method is declared
\* @staticmethod, so it has no cls parameter, and the module defines no global
\* of that name: evaluating cls.LOW_COMPETITION_THRESHOLD (or any other
\* cls.X) raises NameError.
ClsIsBound == FALSE

\* base_score of _score_competition_level before the adjustments.
CompetitionBaseScore(competitor_count) ==
    IF competitor_count = 0 THEN 100
    ELSE IF competitor_count < LOW_COMPETITION_THRESHOLD THEN 90
    ELSE IF competitor_count < MEDIUM_COMPETITION_THRESHOLD THEN 70
    ELSE IF competitor_count < HIGH_COMPETITION_THRESHOLD THEN 50
    ELSE 30

\* review-saturation adjustment, in tenths
ReviewMultiplier(avg_reviews) ==
    IF avg_reviews > HIGH_REVIEW_THRESHOLD THEN 6
    ELSE IF avg_reviews > MEDIUM_REVIEW_THRESHOLD THEN 8
    ELSE IF avg_reviews < LOW_REVIEW_THRESHOLD THEN 12
    ELSE 10

\* rating-quality adjustment, in tenths
RatingMultiplier(avg_rating) ==
    IF avg_rating < LOW_RATING_THRESHOLD THEN 13
    ELSE IF avg_rating > HIGH_RATING_THRESHOLD THEN 9
    ELSE 10

_score_competition_level(comp_data) ==
    IF ~Truthy(comp_data) THEN None
    ELSE IF comp_data.type # "dict" THEN Raise("AttributeError")
    ELSE LET competitor_count == Get(comp_data, "competitor_count", 0)
             avg_reviews == Get(comp_data, "avg_review_count", 0)
             avg_rating == Get(comp_data, "avg_rating", 0)
         IN  \* every path from here reads cls.<THRESHOLD> at least once
             IF ~ClsIsBound THEN Raise("NameError")
             ELSE Ok(Min(10000, CompetitionBaseScore(competitor_count)
                                * ReviewMultiplier(avg_reviews)
                                * RatingMultiplier(avg_rating)))

_score_market_size(market_metrics) ==
    IF ~Truthy(market_metrics) THEN None
    ELSE LET search_volume == Get(market_metrics, "estimated_search_volume", 0)
             related_keywords == Get(market_metrics, "related_keyword_count", 0)
             category_size == Get(market_metrics, "category_size_score", 50)
             volume_score ==
                 IF search_volume > 10000 THEN 90
                 ELSE IF search_volume > 1000 THEN 70
                 ELSE IF search_volume > 100 THEN 50
                 ELSE 30
             \* min(1.5, 1 + related/100), in hundredths
             keyword_multiplier == Min(150, 100 + related_keywords)
         IN  Ok(Min(10000, ((volume_score * 60 + category_size * 40)
                            * keyword_multiplier) \div 100))

_score_seasonality(seasonal_patterns) ==
    IF ~Truthy(seasonal_patterns) THEN Ok(7500)
    ELSE LET seasonality_strength == Get(seasonal_patterns, "seasonality_strength", 0)
             consistency == Get(seasonal_patterns, "consistency_score", 50)
             base_score ==
                 IF seasonality_strength < 10 THEN 95
                 ELSE IF seasonality_strength < 25 THEN 80
                 ELSE IF seasonality_strength < 50 THEN 60
                 ELSE 40
         IN  Ok(base_score * consistency)

_score_content_gaps(content_analysis) ==
    IF ~Truthy(content_analysis) THEN None
    ELSE LET gap_count == Get(content_analysis, "identified_gaps", 0)
             content_quality == Get(content_analysis, "avg_content_quality", 50)
             differentiation == Get(content_analysis, "differentiation_score", 50)
             gap_score ==
                 IF gap_count > 10 THEN 90
                 ELSE IF gap_count > 5 THEN 70
                 ELSE IF gap_count > 2 THEN 50
                 ELSE 30
         IN  Ok(Min(10000, ((gap_score * 60 + differentiation * 40)
                            * (200 - content_quality)) \div 100))

ScoreKeys ==
    <<"trend_score", "competition_score", "market_size_score",
      "seasonality_score", "content_gap_score">>

\* The scores dict of calculate_profitability_score, in evaluation order.
SubScores(niche_data) ==
    [trend_score |-> _score_trend_strength(niche_data.trend_analysis),
     competition_score |-> _score_competition_level(niche_data.competition_data),
     market_size_score |-> _score_market_size(niche_data.market_metrics),
     seasonality_score |-> _score_seasonality(niche_data.seasonal_patterns),
     content_gap_score |-> _score_content_gaps(niche_data.content_analysis)]

RECURSIVE WeightedTotal(_, _)
\* sum of score * weight over the first i entries whose score is not None
WeightedTotal(scores, i) ==
    IF i = 0 THEN 0
    ELSE WeightedTotal(scores, i - 1)
         + (IF scores[ScoreKeys[i]].kind = "ok"
            THEN scores[ScoreKeys[i]].v * WEIGHTS[ScoreKeys[i]] ELSE 0)

RECURSIVE WeightSum(_, _)
\* sum of the weights of the first i entries whose score is not None
WeightSum(scores, i) ==
    IF i = 0 THEN 0
    ELSE WeightSum(scores, i - 1)
         + (IF scores[ScoreKeys[i]].kind = "ok" THEN WEIGHTS[ScoreKeys[i]] ELSE 0)

\* The final scaling of calculate_profitability_score: total/weight_sum*100.
FinalScaling == 100

\* lines 69-73 on the scores dict; an exception raised while the dict is
\* built (the first one, in evaluation order) leaves the function instead
WeightedMean(scores) ==
    LET raised == {i \in 1..5 : scores[ScoreKeys[i]].kind = "raise"}
    IN  IF raised # {}
        THEN scores[ScoreKeys[CHOOSE i \in raised : \A j \in raised : i <= j]]
        ELSE IF WeightSum(scores, 5) > 0
             THEN Ok((WeightedTotal(scores, 5) * FinalScaling) \div WeightSum(scores, 5))
             ELSE Ok(0)

calculate_profitability_score(niche_data) == WeightedMean(SubScores(niche_data))

----------------------------------------------------------------------------
(* The values the evaluation works on *)

NoneValue ==
    [type |-> "NoneType", keys |-> {}]

\* {} passed as competition data
EmptyCompetition ==
    [type |-> "dict", keys |-> {}, competitor_count |-> 0,
     avg_review_count |-> 0, avg_rating |-> 0, estimated |-> FALSE]

\* the dict _analyze_competition builds for a keyword
CompetitionDict(count, reviews, rating, estimated) ==
    [type |-> "dict",
     keys |-> {"competitor_count", "avg_review_count", "avg_rating",
               "price_range", "estimated"},
     competitor_count |-> count, avg_review_count |-> reviews,
     avg_rating |-> rating, estimated |-> estimated]

\* the dataclass default of Niche.competitor_analysis_data
MarketSummaryDefault ==
    [type |-> "MarketSummary", keys |-> {}, competitor_count |-> 0,
     avg_review_count |-> 0, avg_rating |-> 0, estimated |-> FALSE]

\* a keyword without an entry in a keyword -> summary dict
AbsentEntry ==
    [type |-> "absent", keys |-> {}, competitor_count |-> 0,
     avg_review_count |-> 0, avg_rating |-> 0, estimated |-> FALSE]

MarketMetrics(volume) ==
    [type |-> "dict", keys |-> {"estimated_search_volume"},
     estimated_search_volume |-> volume]

\* {"identified_gaps": 5}, as both callers of the scorer pass it
ContentAnalysis ==
    [type |-> "dict", keys |-> {"identified_gaps"}, identified_gaps |-> 5]

EmptySeasonal ==
    [type |-> "dict", keys |-> {}, seasonality_strength |-> 0,
     consistency_score |-> 0]

\* a month -> factor map: non-empty, without the keys the scorer reads
MonthlySeasonal ==
    [type |-> "dict", keys |-> {"December"}, seasonality_strength |-> 0,
     consistency_score |-> 0]

\* a seasonal map carrying the keys the scorer reads
ScoredSeasonal(strength, consistency) ==
    [type |-> "dict", keys |-> {"seasonality_strength", "consistency_score"},
     seasonality_strength |-> strength, consistency_score |-> consistency]

NoTrend ==
    [present |-> FALSE, trend_score |-> 0, direction |-> "stable",
     strength |-> "moderate", confidence_level |-> 0,
     seasonal_patterns |-> EmptySeasonal]

\* The TrendAnalysis the trend provider hands over.  The provider builds it
\* with direction= and strength=, the two attributes the scorer reads; the
\* class it builds (models/trend_model.py next to data/trends_client.py) is
\* not among the sources at hand, so the record follows the data model:
\* trend score 0-100, direction, strength, confidence and seasonal patterns.
\* confidence_level is on the 0-1 scale, held in hundredths.
Trend(score, direction, strength, confidence, seasonal) ==
    [present |-> TRUE, trend_score |-> score, direction |-> direction,
     strength |-> strength, confidence_level |-> confidence,
     seasonal_patterns |-> seasonal]

----------------------------------------------------------------------------
(* agent/tools/niche_discovery.py: the evaluation *)

_estimate_market_size(trend_analysis, comp_data) ==
    LET competitor_count == Get(comp_data, "competitor_count", 0)
        competition_multiplier ==
            IF competitor_count = 0 THEN 15
            ELSE IF competitor_count < 10 THEN 12
            ELSE IF competitor_count < 50 THEN 10
            ELSE 8
        strength_multiplier ==
            IF trend_analysis.strength \in {"strong", "very_strong"} THEN 13
            ELSE IF trend_analysis.strength = "moderate" THEN 10
            ELSE 7
    IN  Min(10000, trend_analysis.trend_score * competition_multiplier
                   * strength_multiplier)

\* the niche_data dict both callers hand to calculate_profitability_score
NicheData(trend_analysis, comp_data, market_size, seasonal) ==
    [trend_analysis |-> trend_analysis,
     competition_data |-> comp_data,
     market_metrics |-> MarketMetrics(market_size),
     seasonal_patterns |-> seasonal,
     content_analysis |-> ContentAnalysis]

\* "x or 0.0" on the outcome of _score_competition_level
OrZero(r) == IF r.kind = "ok" /\ r.v # 0 THEN r.v ELSE 0

\* the fields of a Niche before __post_init__ runs
NicheFields(keyword, competition, profitability, market_size, confidence, trend_analysis, comp_data, seasonal, price_range) ==
    [primary_keyword |-> keyword,
     competition_score_numeric |-> competition,
     profitability_score_numeric |-> profitability,
     market_size_score |-> market_size,
     confidence_score |-> confidence,
     competition_level |-> DefaultCompetitionLevel,
     profitability_tier |-> DefaultProfitabilityTier,
     trend_analysis_data |-> trend_analysis,
     competitor_analysis_data |-> comp_data,
     seasonal_factors |-> seasonal,
     recommended_price_range |-> price_range]

\* recommended_price_range default (9.99, 19.99), in cents
DefaultPriceRange == <<999, 1999>>

_filter_promising_trends_keep(analysis) ==
    /\ ~(analysis.trend_score < 30)
    /\ ~(analysis.direction = "declining" /\ analysis.trend_score < 50)
    /\ ~(analysis.confidence_level < 30)

RECURSIVE _filter_promising_trends(_, _)
\* the keywords of the analysed ones, in dict order, that pass the filter
_filter_promising_trends(keywords, analyses) ==
    IF keywords = <<>> THEN <<>>
    ELSE (IF /\ analyses[Head(keywords)].present
             /\ _filter_promising_trends_keep(analyses[Head(keywords)])
          THEN <<Head(keywords)>> ELSE <<>>)
         \o _filter_promising_trends(Tail(keywords), analyses)

\* the list [niche] of the Niche that was constructed, or the exception
CandidateList(made) == IF made.kind = "raise" THEN made ELSE Ok(<<made.v>>)

\* niche = Niche(...), niches.append(niche), on the scores computed before
ConstructCandidate(keyword, trend_analysis, competition, market_size, profitability, competition_score) ==
    IF profitability.kind = "raise" THEN profitability
    ELSE IF competition_score.kind = "raise" THEN competition_score
    ELSE CandidateList(
             Niche__post_init__(
                 NicheFields(keyword, OrZero(competition_score), profitability.v,
                             market_size, 0, trend_analysis, competition,
                             trend_analysis.seasonal_patterns, DefaultPriceRange)))

\* the body of the loop from niche_data on, given market_size_score
ScoreCandidate(keyword, trend_analysis, competition, market_size) ==
    ConstructCandidate(keyword, trend_analysis, competition, market_size,
                       calculate_profitability_score(
                           NicheData(trend_analysis, competition, market_size,
                                     trend_analysis.seasonal_patterns)),
                       _score_competition_level(competition))

\* the body of the loop for one keyword: trend_analyses.get(keyword),
\* competition_data.get(keyword, {}), market size, then the scores
CandidateFor(keyword, trend_analysis, competition) ==
    IF ~trend_analysis.present THEN Raise("AttributeError")
    ELSE ScoreCandidate(keyword, trend_analysis, competition,
                        _estimate_market_size(trend_analysis, competition))

\* _generate_niche_candidates.  The Niche(...) expression stands after the
\* for loop, not inside it: it runs once, on the variables the last iteration
\* left behind, and on no variable at all when keywords is empty.
_generate_niche_candidates(keywords, analyses, comp) ==
    IF keywords = <<>> THEN Raise("UnboundLocalError")
    ELSE CandidateFor(keywords[Len(keywords)],
                      analyses[keywords[Len(keywords)]],
                      IF comp[keywords[Len(keywords)]].type = "absent"
                      THEN EmptyCompetition ELSE comp[keywords[Len(keywords)]])

\* niche.competition_score_numeric = competition_score or 0.0, and the tier
\* derived from it
SetCompetition(niche, competition_score) ==
    IF competition_score.kind = "raise" THEN competition_score
    ELSE Ok([niche EXCEPT
               !.competition_score_numeric = OrZero(competition_score),
               !.competition_level =
                   _determine_competition_level(OrZero(competition_score))])

\* an assignment that would also overwrite the market size score
SetProfitabilityAndMarketSize(niche, profitability) ==
    IF profitability.kind = "raise" THEN profitability
    ELSE Ok([niche EXCEPT
               !.profitability_score_numeric = profitability.v,
               !.profitability_tier = _determine_profitability_tier(profitability.v),
               !.market_size_score = profitability.v + 1])

\* niche.profitability_score_numeric = the new score, and the tier derived
\* from it
SetProfitability(niche, profitability) ==
    IF profitability.kind = "raise" THEN profitability
    ELSE Ok([niche EXCEPT
               !.profitability_score_numeric = profitability.v,
               !.profitability_tier = _determine_profitability_tier(profitability.v)])

\* the profitability half of the loop body, on the outcome of the first half
RescoreProfitability(r) ==
    IF r.kind = "raise" THEN r
    ELSE SetProfitability(r.v,
             calculate_profitability_score(
                 NicheData(r.v.trend_analysis_data, r.v.competitor_analysis_data,
                           r.v.market_size_score, r.v.seasonal_factors)))

\* the body of the for loop of _score_and_rank_niches on one Niche: the
\* rescored Niche, or the exception
Rescore(niche) ==
    RescoreProfitability(
        SetCompetition(niche, _score_competition_level(niche.competitor_analysis_data)))

\* "if niche.profitability_score_numeric >= min_score"
PassesMinScore(niche, minimum) == niche.profitability_score_numeric >= minimum

RECURSIVE RankLoop(_, _, _, _)
RECURSIVE RankStep(_, _, _, _, _)
\* the for loop of _score_and_rank_niches from candidate i on: the Niche
\* objects as the loop leaves them, scored_niches, and the exception if one
\* ended the loop
RankLoop(ns, i, acc, minimum) ==
    IF i > Len(ns) THEN [niches |-> ns, scored |-> acc, exc |-> "none"]
    ELSE RankStep(ns, i, acc, minimum, Rescore(ns[i]))

\* one pass of the loop, r being what its body made of candidate i
RankStep(ns, i, acc, minimum, r) ==
    IF r.kind = "raise"
    THEN [niches |-> ns, scored |-> acc, exc |-> r.exc]
    ELSE RankLoop([ns EXCEPT ![i] = r.v], i + 1,
                  IF PassesMinScore(r.v, minimum) THEN Append(acc, i) ELSE acc,
                  minimum)

\* the order of an ascending sort (reverse=False)
ComesFirstAscending(list, q, p, ns) ==
    \/ ns[list[q]].profitability_score_numeric < ns[list[p]].profitability_score_numeric
    \/ /\ ns[list[q]].profitability_score_numeric = ns[list[p]].profitability_score_numeric
       /\ q < p

\* the order of sort(key=profitability_score_numeric, reverse=True): the
\* entry at q comes before the entry at p when its key is greater, or when
\* the keys are equal and it stood before p (the sort is stable)
ComesFirst(list, q, p, ns) ==
    \/ ns[list[q]].profitability_score_numeric > ns[list[p]].profitability_score_numeric
    \/ /\ ns[list[q]].profitability_score_numeric = ns[list[p]].profitability_score_numeric
       /\ q < p

\* the place the entry at p takes in the sorted list
SortedPosition(list, p, ns) ==
    1 + Cardinality({q \in 1..Len(list) : ComesFirst(list, q, p, ns)})

\* scored_niches.sort(key=lambda x: x.profitability_score_numeric, reverse=True)
SortByProfitability(list, ns) ==
    [r \in 1..Len(list) |->
        list[CHOOSE p \in 1..Len(list) : SortedPosition(list, p, ns) = r]]

\* competition_limits.get(max_competition, 50): computed and never read again
MaxCompetitors(max_comp) ==
    CASE max_comp = "low" -> 20
      [] max_comp = "medium" -> 50
      [] max_comp = "high" -> 100
      [] OTHER -> 50

\* the sort that follows the loop, on what the loop left
SortScored(looped) ==
    [looped EXCEPT !.scored = SortByProfitability(looped.scored, looped.niches)]

\* max_competitors = MaxCompetitors(max_comp) is assigned and takes no part
\* in the loop or in the sort
_score_and_rank_niches(ns, minimum, max_comp) ==
    SortScored(RankLoop(ns, 1, <<>>, minimum))

\* scored_niches[:limit], limit >= 0
Slice(list, n) == SubSeq(list, 1, Min(n, Len(list)))

----------------------------------------------------------------------------
(* The evaluation as a state machine *)

MaxNiches == 2

\* the expanded keywords handed to trend analysis, in order
Keywords == <<"gratitude journal", "journal">>

KeywordSet == {Keywords[i] : i \in 1..Len(Keywords)}

\* len(keyword.split())
WordCount(keyword) == IF keyword = "gratitude journal" THEN 2 ELSE 1

\* what the trend provider may hand back for a keyword
TrendSet ==
    {NoTrend,
     Trend(80, "rising", "strong", 80, EmptySeasonal),
     Trend(50, "stable", "moderate", 60, MonthlySeasonal),
     Trend(40, "declining", "weak", 90, EmptySeasonal),
     Trend(20, "stable", "very_weak", 20, EmptySeasonal)}

\* what the product search may do for a keyword: a list of n products, an
\* empty list, or an exception
SearchOutcomes ==
    {[kind |-> "products", summary |-> CompetitionDict(5, 50, 40, FALSE)],
     [kind |-> "products", summary |-> CompetitionDict(60, 500, 47, FALSE)],
     [kind |-> "empty", summary |-> CompetitionDict(0, 0, 0, FALSE)],
     [kind |-> "exception", summary |-> AbsentEntry]}

\* arguments of direct constructions of a Niche
NicheArguments ==
    {NicheFields("journal", 0, 0, 0, 0, NoTrend, EmptyCompetition,
                 EmptySeasonal, DefaultPriceRange),
     NicheFields("gratitude journal", 2500, 8500, 5000, 7000,
                 Trend(80, "rising", "strong", 80, EmptySeasonal),
                 EmptyCompetition, EmptySeasonal, DefaultPriceRange),
     NicheFields("journal", 2500, 8500, 5000, 7000,
                 Trend(80, "rising", "strong", 80, EmptySeasonal),
                 EmptyCompetition, EmptySeasonal, DefaultPriceRange),
     NicheFields("journal", 4500, 7000, 6000, 6000,
                 Trend(50, "stable", "moderate", 60, MonthlySeasonal),
                 EmptyCompetition, ScoredSeasonal(30, 80), <<599, 1299>>),
     NicheFields("planner", 7500, 4000, 100, 5000, NoTrend,
                 EmptyCompetition, ScoredSeasonal(60, 0), DefaultPriceRange),
     NicheFields("gratitude journal", 7500, 4000, 3000, 5000,
                 Trend(80, "rising", "strong", 80, EmptySeasonal),
                 CompetitionDict(5, 50, 40, FALSE), EmptySeasonal,
                 DefaultPriceRange),
     NicheFields("diary", 3000, 6000, 4000, 5000, NoTrend,
                 MarketSummaryDefault, EmptySeasonal, DefaultPriceRange),
     NicheFields("journal", 4500, 12000, 5000, 5000, NoTrend,
                 EmptyCompetition, EmptySeasonal, DefaultPriceRange),
     NicheFields("journal", 4500, 7000, 5000, 5000, NoTrend,
                 EmptyCompetition, EmptySeasonal, <<1999, 999>>)}

\* min_profitability_score: 0, the default 60, 100, and two values above the
\* scale, which the function accepts like any other float
MinScores == {0, 6000, 10000, 650000, 800000}

CompetitionLevels == {"low", "medium", "high"}

\* limit: the tool schema allows 1..50
Limits == {1, 2}

NoAnalyses == [k \in KeywordSet |-> NoTrend]

NoCompetition == [k \in KeywordSet |-> AbsentEntry]

\* no stress test has been started
NoNiche == [present |-> FALSE]

NoStressResult ==
    [kind |-> "none", keys |-> {}, error |-> "", overall_resilience |-> 0,
     risk_profile |-> "", scenarios_tested |-> 0, confidence_level |-> 0]

\* the most keywords handed to _batch_analyze_trends
MaxKeywords == 6

\* _batch_analyze_trends has not been called
BatchIdle ==
    /\ batch_pc = "idle"
    /\ awaitable = TRUE
    /\ batch_keywords = 0
    /\ batch_i = 0
    /\ lookup = [k \in 1..MaxKeywords |-> "pending"]
    /\ started = [k \in 1..MaxKeywords |-> 0]
    /\ delays = 0
    /\ analysed = {}
    /\ batch_exc = "none"

\* None where a parsed JSON document is expected
NoPayload == [kind |-> "none", v |-> "", exc |-> "none"]

\* {}
EmptyDict == [key \in {} |-> None]

\* an empty cache of capacity 1 and a client that is not in a request
DataIdle ==
    /\ cache = EmptyDict
    /\ access_times = <<>>
    /\ max_size = 1
    /\ now = 0
    /\ request_pc = "idle"
    /\ max_retries = 0
    /\ retry_delay = 10
    /\ attempt = 0
    /\ responses = <<>>
    /\ sleeps = <<>>
    /\ response = NoPayload

StressIdle ==
    /\ stress_pc = "idle"
    /\ baseline_niche = NoNiche
    /\ stress_trend = NoTrend
    /\ scenarios_to_test = <<>>
    /\ attempted = <<>>
    /\ scenario_results = <<>>
    /\ stress_result = NoStressResult

Init ==
    /\ pc = "idle"
    /\ exc = "none"
    /\ min_score \in MinScores
    /\ max_competition \in CompetitionLevels
    /\ limit \in Limits
    /\ trend_analyses = NoAnalyses
    /\ promising = <<>>
    /\ competition_data = NoCompetition
    /\ niches = <<>>
    /\ scored = <<>>
    /\ top = <<>>
    /\ calls = <<>>
    /\ StressIdle
    /\ DataIdle
    /\ BatchIdle

\* the Niche joins the caller's list, or the constructor's exception is kept
NicheMade(made) ==
    IF made.kind = "raise"
    THEN /\ exc' = made.exc
         /\ UNCHANGED niches
    ELSE /\ exc' = "none"
         /\ niches' = Append(niches, made.v)

\* Niche(...): a caller constructs a Niche from explicit field values
NicheInit(args) ==
    /\ pc = "idle"
    /\ Len(niches) < MaxNiches
    /\ NicheMade(Niche__post_init__(args))
    /\ UNCHANGED <<pc, min_score, max_competition, limit, trend_analyses,
                   promising, competition_data, scored, top, calls>>
    /\ UNCHANGED stressVars
    /\ UNCHANGED dataVars
    /\ UNCHANGED batchVars

\* find_profitable_niches, steps 1-3: the trend analyses of the expanded
\* keywords arrive and the promising keywords are selected
AnalyzeTrends(analyses) ==
    /\ pc = "idle"
    /\ niches = <<>>
    /\ trend_analyses' = analyses
    /\ promising' = _filter_promising_trends(Keywords, analyses)
    /\ pc' = "promising"
    /\ exc' = "none"
    /\ UNCHANGED <<min_score, max_competition, limit, competition_data, niches,
                   scored, top, calls>>
    /\ UNCHANGED stressVars
    /\ UNCHANGED dataVars
    /\ UNCHANGED batchVars

\* _analyze_competition without a Keepa client: simulated summaries
SimulatedCompetition ==
    [k \in KeywordSet |->
        IF \E i \in 1..Len(promising) : promising[i] = k
        THEN CompetitionDict(WordCount(k) * 20, 50, 40, TRUE)
        ELSE AbsentEntry]

\* _analyze_competition with a Keepa client, given what each search does
SearchedCompetition(outcome) ==
    [k \in KeywordSet |->
        IF \E i \in 1..Min(20, Len(promising)) : promising[i] = k
        THEN outcome[k].summary
        ELSE AbsentEntry]

\* find_profitable_niches, step 4
AnalyzeCompetition(has_client, outcome) ==
    /\ pc = "promising"
    /\ competition_data' = IF has_client THEN SearchedCompetition(outcome)
                           ELSE SimulatedCompetition
    /\ pc' = "competition"
    /\ UNCHANGED <<exc, min_score, max_competition, limit, trend_analyses,
                   promising, niches, scored, top, calls>>
    /\ UNCHANGED stressVars
    /\ UNCHANGED dataVars
    /\ UNCHANGED batchVars

\* the candidates become the working list, or the exception leaves the
\* function through its except clause
CandidatesMade(made) ==
    IF made.kind = "raise"
    THEN /\ pc' = "raised"
         /\ exc' = made.exc
         /\ UNCHANGED niches
    ELSE /\ pc' = "candidates"
         /\ exc' = "none"
         /\ niches' = made.v

\* find_profitable_niches, step 5
GenerateCandidates ==
    /\ pc = "competition"
    /\ CandidatesMade(_generate_niche_candidates(promising, trend_analyses,
                                                 competition_data))
    /\ UNCHANGED <<min_score, max_competition, limit, trend_analyses,
                   promising, competition_data, scored, top, calls>>
    /\ UNCHANGED stressVars
    /\ UNCHANGED dataVars
    /\ UNCHANGED batchVars

\* the Niche objects keep what the loop wrote into them; the sorted list is
\* returned unless the loop raised
Ranked(ranked) ==
    /\ niches' = ranked.niches
    /\ IF ranked.exc # "none"
       THEN /\ pc' = "raised"
            /\ exc' = ranked.exc
            /\ UNCHANGED scored
       ELSE /\ pc' = "scored"
            /\ exc' = "none"
            /\ scored' = ranked.scored

\* _score_and_rank_niches, as step 6 of find_profitable_niches or called on
\* Niche objects a caller has built
ScoreAndRank ==
    /\ \/ pc = "candidates"
       \/ pc = "idle" /\ niches # <<>>
    /\ Ranked(_score_and_rank_niches(niches, min_score, max_competition))
    /\ UNCHANGED <<min_score, max_competition, limit, trend_analyses,
                   promising, competition_data, top, calls>>
    /\ UNCHANGED stressVars
    /\ UNCHANGED dataVars
    /\ UNCHANGED batchVars

\* find_profitable_niches, step 7: top_niches = scored_niches[:limit]
ReturnTop ==
    /\ pc = "scored"
    /\ top' = Slice(scored, limit)
    /\ pc' = "returned"
    /\ UNCHANGED <<exc, min_score, max_competition, limit, trend_analyses,
                   promising, competition_data, niches, scored, calls>>
    /\ UNCHANGED stressVars
    /\ UNCHANGED dataVars
    /\ UNCHANGED batchVars

Next ==
    \/ \E args \in NicheArguments : NicheInit(args)
    \/ \E analyses \in [KeywordSet -> TrendSet] : AnalyzeTrends(analyses)
    \/ \E has_client \in BOOLEAN, outcome \in [KeywordSet -> SearchOutcomes] :
           AnalyzeCompetition(has_client, outcome)
    \/ GenerateCandidates
    \/ ScoreAndRank
    \/ ReturnTop

Spec == Init /\ [][Next]_vars

----------------------------------------------------------------------------
(* The NicheScorer class methods called on their own *)

CompetitionInputs ==
    {NoneValue, EmptyCompetition}
    \cup {CompetitionDict(count, reviews, rating, FALSE) :
            count \in {0, 5, 70},
            reviews \in {50, 5000},
            rating \in {30, 40}}

ProfitabilityInputs ==
    [trend_analysis : {NoTrend,
                       Trend(80, "rising", "strong", 80, EmptySeasonal)},
     competition_data : {NoneValue, EmptyCompetition,
                         CompetitionDict(5, 50, 40, FALSE)},
     market_metrics : {NoneValue, MarketMetrics(5000)},
     seasonal_patterns : {NoneValue, MonthlySeasonal, ScoredSeasonal(30, 80)},
     content_analysis : {NoneValue, ContentAnalysis}]

\* calls keeps the two most recent calls
Record(call) == IF Len(calls) < 2 THEN Append(calls, call) ELSE <<calls[2], call>>

InitScorer ==
    /\ pc = "idle"
    /\ exc = "none"
    /\ min_score = 6000
    /\ max_competition = "medium"
    /\ limit = 1
    /\ trend_analyses = NoAnalyses
    /\ promising = <<>>
    /\ competition_data = NoCompetition
    /\ niches = <<>>
    /\ scored = <<>>
    /\ top = <<>>
    /\ calls = <<>>
    /\ StressIdle
    /\ DataIdle
    /\ BatchIdle

ScoreCompetitionLevel(input) ==
    /\ calls' = Record([fn |-> "_score_competition_level", input |-> input,
                        result |-> _score_competition_level(input)])
    /\ UNCHANGED <<pc, exc, min_score, max_competition, limit, trend_analyses,
                   promising, competition_data, niches, scored, top>>
    /\ UNCHANGED stressVars
    /\ UNCHANGED dataVars
    /\ UNCHANGED batchVars

CalculateProfitabilityScore(input) ==
    /\ calls' = Record([fn |-> "calculate_profitability_score", input |-> input,
                        result |-> calculate_profitability_score(input)])
    /\ UNCHANGED <<pc, exc, min_score, max_competition, limit, trend_analyses,
                   promising, competition_data, niches, scored, top>>
    /\ UNCHANGED stressVars
    /\ UNCHANGED dataVars
    /\ UNCHANGED batchVars

NextScorer ==
    \/ \E input \in CompetitionInputs : ScoreCompetitionLevel(input)
    \/ \E input \in ProfitabilityInputs : CalculateProfitabilityScore(input)

SpecScorer == InitScorer /\ [][NextScorer]_vars

----------------------------------------------------------------------------
(* agent/tools/stress_testing.py: StressTester                             *)
(*                                                                         *)
(* Fractions (severity, probability, impact, the factors, survival) are    *)
(* held in ten-thousandths, scores in hundredths as before; a product is   *)
(* truncated where the float would carry further digits.                   *)

\* StressTestParameters(scenario, severity, duration_months, recovery_months,
\* probability, description)
StressTestParameters(scenario, severity, duration_months, recovery_months, probability) ==
    [scenario |-> scenario, severity |-> severity,
     duration_months |-> duration_months, recovery_months |-> recovery_months,
     probability |-> probability]

\* StressTester.DEFAULT_SCENARIOS.values(), in insertion order
DEFAULT_SCENARIOS ==
    <<StressTestParameters("market_saturation", 7000, 6, 12, 3000),
      StressTestParameters("economic_downturn", 6000, 8, 18, 2000),
      StressTestParameters("competitive_flooding", 8000, 4, 8, 4000),
      StressTestParameters("seasonal_crash", 9000, 3, 6, 5000),
      StressTestParameters("platform_changes", 5000, 3, 9, 3000),
      StressTestParameters("trend_reversal", 8000, 12, 24, 2500),
      StressTestParameters("consumer_shift", 6000, 9, 15, 3500),
      StressTestParameters("supply_chain_disruption", 4000, 2, 4, 1500)>>

\* the attributes of a Niche class that also answers to the names the
\* stress tester reads (the score fields before they were renamed)
NicheAttributesBeforeRename ==
    {"category", "primary_keyword", "subcategory", "keywords",
     "competition_score_numeric", "profitability_score_numeric",
     "market_size_score", "confidence_score", "competition_level",
     "profitability_tier", "trend_analysis_data", "competitor_analysis_data",
     "seasonal_factors", "content_gaps", "recommended_price_range",
     "top_competitors", "analysis_date", "additional_data", "overall_score",
     "risk_level", "profitability_score", "competition_score",
     "competition_score_numreic", "price_range", "related_keywords",
     "trend_analysis", "competitor_data"}

\* the names an instance of Niche answers to: the dataclass fields and the
\* two properties; any other name raises AttributeError
NicheAttributes ==
    {"category", "primary_keyword", "subcategory", "keywords",
     "competition_score_numeric", "profitability_score_numeric",
     "market_size_score", "confidence_score", "competition_level",
     "profitability_tier", "trend_analysis_data", "competitor_analysis_data",
     "seasonal_factors", "content_gaps", "recommended_price_range",
     "top_competitors", "analysis_date", "additional_data", "overall_score",
     "risk_level"}

HasAttr(name) == name \in NicheAttributes

\* Niche.overall_score: 0.4 profitability + 0.3 (100 - competition)
\* + 0.2 market size + 0.1 confidence, rounded to two places
overall_score(n) ==
    (n.profitability_score_numeric * 40
     + (10000 - n.competition_score_numeric) * 30
     + n.market_size_score * 20
     + n.confidence_score * 10 + 50) \div 100

\* the scenario-specific multiplier (1 + ...) of _calculate_stress_impact
ScenarioFactor(n, scenario_params, trend_analysis) ==
    CASE scenario_params.scenario = "market_saturation" ->
            Ok(10000 + n.competition_score_numeric)
      [] scenario_params.scenario = "economic_downturn" ->
            IF ~HasAttr("price_range") THEN Raise("AttributeError")
            ELSE Ok(10000
                    + ((Min(10000, n.recommended_price_range[1]
                                   + n.recommended_price_range[2]) * 5) \div 10))
      [] scenario_params.scenario = "competitive_flooding" ->
            Ok(10000 + (((10000 - n.competition_score_numeric) * 8) \div 10))
      [] scenario_params.scenario = "seasonal_crash" ->
            Ok(10000 + (IF Truthy(n.seasonal_factors)
                        THEN Get(n.seasonal_factors, "volatility", 5000)
                        ELSE 5000))
      [] scenario_params.scenario = "trend_reversal" ->
            IF trend_analysis.present
            THEN Ok(10000 + ((trend_analysis.trend_score * 100 * 7) \div 10))
            ELSE Ok(10000)
      [] scenario_params.scenario = "consumer_shift" ->
            Ok(10000 + (((10000 - n.market_size_score) * 6) \div 10))
      [] OTHER -> Ok(10000)

\* min(1.5, duration_months / 12)
DurationFactor(scenario_params) ==
    Min(15000, (scenario_params.duration_months * 10000) \div 12)

\* base_impact = severity * 0.5, times the scenario factor, times the
\* duration factor, capped at 0.95
CappedImpact(scenario_params, factor) ==
    IF factor.kind = "raise" THEN factor
    ELSE Ok(Min(9500,
                (((((scenario_params.severity * 5) \div 10) * factor.v) \div 10000)
                 * DurationFactor(scenario_params)) \div 10000))

_calculate_stress_impact(n, scenario_params, trend_analysis) ==
    CappedImpact(scenario_params, ScenarioFactor(n, scenario_params, trend_analysis))

\* _calculate_recovery_factor reads niche.profitability_score and
\* niche.competition_score_numreic
_calculate_recovery_factor(n, scenario_params, stress_impact) ==
    IF ~HasAttr("profitability_score") THEN Raise("AttributeError")
    ELSE IF ~HasAttr("competition_score_numreic") THEN Raise("AttributeError")
    ELSE Ok(Min(10000, Max(1000,
            ((((7000 + ((n.profitability_score_numeric * 2) \div 10)
                     + (((10000 - n.competition_score_numeric) * 15) \div 100)
                     + (n.market_size_score \div 10))
               * Min(12000, (scenario_params.recovery_months * 10000) \div 12))
              \div 10000)
             * (10000 - ((stress_impact * 3) \div 10))) \div 10000)))

\* the step function of _calculate_survival_probability
BaseSurvival(stressed_score) ==
    IF stressed_score >= 6000 THEN 9500
    ELSE IF stressed_score >= 4000 THEN 8000
    ELSE IF stressed_score >= 2000 THEN 6000
    ELSE IF stressed_score >= 1000 THEN 3000
    ELSE 1000

_calculate_survival_probability(stressed_score, recovery_score, scenario_params) ==
    Min(10000, Max(500,
        BaseSurvival(stressed_score) + ((recovery_score * 2) \div 10)
        - ((scenario_params.severity * 15) \div 100)
        - Min(2000, (scenario_params.duration_months * 10000) \div 24)))

\* the vulnerability rules of _identify_vulnerabilities that read fields of
\* the model (the rules on category and content_gaps read fields it leaves out)
VulnerabilityRules(n, scenario_params, stress_impact) ==
    {v \in {"high_vulnerability", "high_competition", "small_market", "high_price",
            "low_barriers", "seasonal_volatility", "low_confidence",
            "low_profitability"} :
        \/ v = "high_vulnerability" /\ stress_impact > 7000
        \/ /\ scenario_params.scenario = "market_saturation"
           /\ \/ v = "high_competition" /\ n.competition_score_numeric > 7000
              \/ v = "small_market" /\ n.market_size_score < 4000
        \/ /\ scenario_params.scenario = "economic_downturn"
           /\ v = "high_price" /\ n.recommended_price_range[2] > 3000
        \/ /\ scenario_params.scenario = "competitive_flooding"
           /\ v = "low_barriers" /\ n.competition_score_numeric < 5000
        \/ /\ scenario_params.scenario = "seasonal_crash"
           /\ v = "seasonal_volatility"
           /\ Truthy(n.seasonal_factors)
           /\ Get(n.seasonal_factors, "volatility", 0) > 6000
        \/ v = "low_confidence" /\ n.confidence_score < 6000
        \/ v = "low_profitability" /\ n.profitability_score_numeric < 5000}

\* _identify_vulnerabilities reads niche.price_range (economic downturn only)
\* and, for every scenario, niche.profitability_score
_identify_vulnerabilities(n, scenario_params, stress_impact) ==
    IF scenario_params.scenario = "economic_downturn" /\ ~HasAttr("price_range")
    THEN Raise("AttributeError")
    ELSE IF ~HasAttr("profitability_score") THEN Raise("AttributeError")
    ELSE Ok(VulnerabilityRules(n, scenario_params, stress_impact))

\* the number of strategies _generate_mitigation_strategies returns: three
\* for six of the scenario types, the general ones, at most five; it reads
\* niche.profitability_score and niche.competition_score
_generate_mitigation_strategies(n, scenario_params) ==
    IF ~HasAttr("profitability_score") THEN Raise("AttributeError")
    ELSE IF ~HasAttr("competition_score") THEN Raise("AttributeError")
    ELSE Ok(Min(5,
            (IF scenario_params.scenario \in {"consumer_shift", "supply_chain_disruption"}
             THEN 0 ELSE 3)
            + (IF n.profitability_score_numeric < 6000 THEN 1 ELSE 0)
            + (IF n.market_size_score < 5000 THEN 1 ELSE 0)
            + (IF n.competition_score_numeric > 7000 THEN 1 ELSE 0)))

\* round(x, 1) on a score in hundredths
Round1(x) == ((x + 5) \div 10) * 10

\* round(x, 2) on a fraction in ten-thousandths
Round2(x) == ((x + 50) \div 100) * 100

\* ScenarioResult(...), lines 211-222
ScenarioResult(scenario_params, initial_score, stressed_score, recovery_score, vulnerabilities, mitigations) ==
    IF vulnerabilities.kind = "raise" THEN vulnerabilities
    ELSE IF mitigations.kind = "raise" THEN mitigations
    ELSE Ok([scenario |-> scenario_params.scenario,
             parameters |-> scenario_params,
             initial_score |-> Round1(initial_score),
             stressed_score |-> Round1(stressed_score),
             recovery_score |-> Round1(recovery_score),
             impact_percentage |->
                 Round1(((initial_score - stressed_score) * 10000) \div initial_score),
             resilience_score |-> Round1((stressed_score * 10000) \div initial_score),
             survival_probability |->
                 Round2(_calculate_survival_probability(stressed_score, recovery_score,
                                                        scenario_params)),
             key_vulnerabilities |-> vulnerabilities.v,
             mitigation_strategies |-> mitigations.v])

\* simulate_scenario from the recovery score on: the two divisions by
\* initial_score, then vulnerabilities and mitigations
AfterRecovery(n, scenario_params, initial_score, stress_impact, stressed_score, recovery_factor) ==
    IF recovery_factor.kind = "raise" THEN recovery_factor
    ELSE IF initial_score = 0 THEN Raise("ZeroDivisionError")
    ELSE ScenarioResult(scenario_params, initial_score, stressed_score,
                        Min(initial_score,
                            stressed_score
                            + (((initial_score - stressed_score) * recovery_factor.v)
                               \div 10000)),
                        _identify_vulnerabilities(n, scenario_params, stress_impact),
                        _generate_mitigation_strategies(n, scenario_params))

\* simulate_scenario from the stressed score on
AfterImpact(n, scenario_params, initial_score, stress_impact) ==
    IF stress_impact.kind = "raise" THEN stress_impact
    ELSE AfterRecovery(n, scenario_params, initial_score, stress_impact.v,
                       Max(0, (initial_score * (10000 - stress_impact.v)) \div 10000),
                       _calculate_recovery_factor(n, scenario_params, stress_impact.v))

simulate_scenario(n, scenario_params, trend_analysis) ==
    AfterImpact(n, scenario_params, overall_score(n),
                _calculate_stress_impact(n, scenario_params, trend_analysis))

----------------------------------------------------------------------------
(* agent/tools/stress_testing.py: niche_stress_test *)

RECURSIVE SumResilience(_, _)
\* sum of resilience_score, or of resilience_score * probability
SumResilience(results, weighted) ==
    IF results = <<>> THEN 0
    ELSE (IF weighted
          THEN Head(results).resilience_score * Head(results).parameters.probability
          ELSE Head(results).resilience_score)
         + SumResilience(Tail(results), weighted)

RECURSIVE SumProbability(_)
\* total_weight
SumProbability(results) ==
    IF results = <<>> THEN 0
    ELSE Head(results).parameters.probability + SumProbability(Tail(results))

_calculate_overall_resilience(results) ==
    IF results = <<>> THEN 0
    ELSE IF SumProbability(results) = 0
         THEN SumResilience(results, FALSE) \div Len(results)
         ELSE Round1(SumResilience(results, TRUE) \div SumProbability(results))

\* len([r for r in scenario_results if r.impact_percentage > 50])
HighImpactScenarios(results) ==
    Cardinality({i \in 1..Len(results) : results[i].impact_percentage > 5000})

\* a risk profile that looks at the overall resilience alone
RiskProfileByResilienceOnly(results, overall_resilience) ==
    IF overall_resilience >= 8000 THEN "low"
    ELSE IF overall_resilience >= 6000 THEN "medium"
    ELSE IF overall_resilience >= 4000 THEN "high"
    ELSE "very_high"

\* _determine_risk_profile: the count of high-impact scenarios caps the tier
_determine_risk_profile(results, overall_resilience) ==
    IF overall_resilience >= 8000 /\ HighImpactScenarios(results) <= 1 THEN "low"
    ELSE IF overall_resilience >= 6000 /\ HighImpactScenarios(results) <= 3 THEN "medium"
    ELSE IF overall_resilience >= 4000 THEN "high"
    ELSE "very_high"

\* _calculate_test_confidence, in ten-thousandths
_calculate_test_confidence(n, trend_analysis, scenarios_tested) ==
    Round2(Min(10000,
               7000 + ((n.confidence_score * 2) \div 10)
               + (IF trend_analysis.present THEN trend_analysis.confidence_level * 15 ELSE 0)
               + ((Min(10000, (scenarios_tested * 10000) \div 8) * 15) \div 100)))

\* _analyze_survival_probabilities: statistics.mean of an empty list raises
RECURSIVE SumSurvival(_)
SumSurvival(results) ==
    IF results = <<>> THEN 0
    ELSE Head(results).survival_probability + SumSurvival(Tail(results))

_analyze_survival_probabilities(results) ==
    IF results = <<>> THEN Raise("StatisticsError")
    ELSE Ok(SumSurvival(results) \div Len(results))

\* _assess_niche_data_completeness reads niche.related_keywords first of the
\* names the Niche class does not have
_assess_niche_data_completeness(n) ==
    IF ~HasAttr("related_keywords") THEN Raise("AttributeError") ELSE Ok(0)

\* the keys of the dict a completed stress test returns
ReportKeys ==
    {"stress_test_summary", "baseline_niche", "scenario_results", "risk_analysis",
     "recommendations", "test_metadata"}

\* the keys of the dict the two error returns build
ErrorKeys == {"error", "niche_keyword", "test_timestamp"}

\* what niche_stress_test returns: the keys of the dict, the error text's
\* origin, and the stress_test_summary when there is one
StressResult(keys, error, overall_resilience, risk_profile, scenarios_tested, confidence_level) ==
    [kind |-> "dict", keys |-> keys, error |-> error,
     overall_resilience |-> overall_resilience, risk_profile |-> risk_profile,
     scenarios_tested |-> scenarios_tested, confidence_level |-> confidence_level]

\* the except clause of niche_stress_test, lines 611-617
ErrorResult(error) == StressResult(ErrorKeys, error, 0, "", 0, 0)

\* lines 519-609: the aggregate values, then the result dict, whose
\* risk_analysis and test_metadata entries may raise
CompileResult(n, trend_analysis, results, survival_analysis, completeness) ==
    IF survival_analysis.kind = "raise" THEN ErrorResult(survival_analysis.exc)
    ELSE IF completeness.kind = "raise" THEN ErrorResult(completeness.exc)
    ELSE StressResult(ReportKeys, "",
                      _calculate_overall_resilience(results),
                      _determine_risk_profile(results,
                                              _calculate_overall_resilience(results)),
                      Len(results),
                      _calculate_test_confidence(n, trend_analysis, Len(results)))

\* competitor_data of _create_niche_for_testing
CompetitorData ==
    [type |-> "dict", keys |-> {"total_competitors", "avg_price", "top_competitor_sales"}]

\* seasonal_factors = {"volatility": v}
Volatility(v) == [type |-> "dict", keys |-> {"volatility"}, volatility |-> v]

\* the random draws of _create_niche_for_testing: competition in [30,80],
\* profitability in [40,85], market size in [35,75], confidence in [50,90],
\* avg_price in [10,50] (cents), volatility in [0.2,0.8]
NicheDraws ==
    {[competition |-> 3000, profitability |-> 8500, market_size |-> 7500,
      confidence |-> 9000, avg_price |-> 1000, volatility |-> 2000],
     [competition |-> 8000, profitability |-> 4000, market_size |-> 3500,
      confidence |-> 5000, avg_price |-> 5000, volatility |-> 8000],
     [competition |-> 5500, profitability |-> 6000, market_size |-> 5000,
      confidence |-> 7000, avg_price |-> 2500, volatility |-> 5000]}

\* Niche(...) of _create_niche_for_testing, lines 642-658
TestingNiche(keyword, trend_analysis, draw) ==
    Niche__post_init__(
        NicheFields(keyword, draw.competition, draw.profitability, draw.market_size,
                    draw.confidence, trend_analysis, CompetitorData,
                    Volatility(draw.volatility),
                    <<(draw.avg_price * 8) \div 10, (draw.avg_price * 12) \div 10>>))

\* what trends_client.get_trend_analysis may do: raise, return None, or
\* return an analysis
TrendOutcomes ==
    {Raise("Exception"), Ok(NoTrend),
     Ok(Trend(80, "rising", "strong", 80, EmptySeasonal)),
     Ok(Trend(40, "declining", "weak", 50, MonthlySeasonal))}

\* _create_niche_for_testing: None when anything in it raises
_create_niche_for_testing(keyword, outcome, draw) ==
    IF outcome.kind = "raise" THEN None
    ELSE IF TestingNiche(keyword, outcome.v, draw).kind = "raise" THEN None
    ELSE TestingNiche(keyword, outcome.v, draw)

----------------------------------------------------------------------------
(* The stress test as a state machine *)

\* custom_scenarios: none, or one scenario a caller has built
CustomScenarioLists ==
    {<<>>,
     <<StressTestParameters("market_saturation", 10000, 24, 6, 0)>>,
     <<StressTestParameters("platform_changes", 1000, 1, 1, 10000)>>}

InitStress ==
    /\ pc = "idle"
    /\ exc = "none"
    /\ min_score = 6000
    /\ max_competition = "medium"
    /\ limit = 1
    /\ trend_analyses = NoAnalyses
    /\ promising = <<>>
    /\ competition_data = NoCompetition
    /\ niches = <<>>
    /\ scored = <<>>
    /\ top = <<>>
    /\ calls = <<>>
    /\ StressIdle
    /\ DataIdle
    /\ BatchIdle

\* "if not niche: return {error: ...}", lines 481-486
NicheCreated(made) ==
    IF made.kind = "none"
    THEN /\ stress_pc' = "done"
         /\ stress_result' = ErrorResult("Unable to create niche data for stress testing")
         /\ UNCHANGED baseline_niche
    ELSE /\ stress_pc' = "niche"
         /\ baseline_niche' = made.v
         /\ UNCHANGED stress_result

\* niche = await _create_niche_for_testing(...)
CreateNicheForTesting(outcome, draw) ==
    /\ stress_pc = "idle"
    /\ NicheCreated(_create_niche_for_testing("journal", outcome, draw))
    /\ UNCHANGED <<stress_trend, scenarios_to_test, attempted, scenario_results>>
    /\ UNCHANGED evaluationVars
    /\ UNCHANGED batchVars
    /\ UNCHANGED dataVars

\* trend_analysis = None; try: trend_analysis = await get_trend_analysis(...)
GetTrendAnalysis(outcome) ==
    /\ stress_pc = "niche"
    /\ stress_trend' = IF outcome.kind = "raise" THEN NoTrend ELSE outcome.v
    /\ stress_pc' = "trend"
    /\ UNCHANGED <<baseline_niche, scenarios_to_test, attempted, scenario_results,
                   stress_result>>
    /\ UNCHANGED evaluationVars
    /\ UNCHANGED batchVars
    /\ UNCHANGED dataVars

\* lines 496-505
DetermineScenarios(include_all_scenarios, custom_scenarios) ==
    /\ stress_pc = "trend"
    /\ scenarios_to_test' =
          IF (IF include_all_scenarios THEN DEFAULT_SCENARIOS ELSE <<>>)
             \o custom_scenarios = <<>>
          THEN DEFAULT_SCENARIOS
          ELSE (IF include_all_scenarios THEN DEFAULT_SCENARIOS ELSE <<>>)
               \o custom_scenarios
    /\ stress_pc' = "loop"
    /\ UNCHANGED <<baseline_niche, stress_trend, attempted, scenario_results,
                   stress_result>>
    /\ UNCHANGED evaluationVars
    /\ UNCHANGED batchVars
    /\ UNCHANGED dataVars

\* one pass of the loop: the result is appended, or the exception is logged
Simulated(scenario_params, r) ==
    /\ attempted' = Append(attempted, [scenario |-> scenario_params.scenario,
                                       failed |-> r.kind = "raise",
                                       exc |-> r.exc])
    /\ scenario_results' = IF r.kind = "raise" THEN scenario_results
                           ELSE Append(scenario_results, r.v)

\* for scenario_params in scenarios_to_test: try simulate_scenario(...)
SimulateScenario ==
    /\ stress_pc = "loop"
    /\ Len(attempted) < Len(scenarios_to_test)
    /\ Simulated(scenarios_to_test[Len(attempted) + 1],
                 simulate_scenario(baseline_niche,
                                   scenarios_to_test[Len(attempted) + 1],
                                   stress_trend))
    /\ UNCHANGED <<stress_pc, baseline_niche, stress_trend, scenarios_to_test,
                   stress_result>>
    /\ UNCHANGED evaluationVars
    /\ UNCHANGED batchVars
    /\ UNCHANGED dataVars

\* after the loop: aggregation, the result dict, return
CompileReport ==
    /\ stress_pc = "loop"
    /\ Len(attempted) = Len(scenarios_to_test)
    /\ stress_result' =
          CompileResult(baseline_niche, stress_trend, scenario_results,
                        _analyze_survival_probabilities(scenario_results),
                        _assess_niche_data_completeness(baseline_niche))
    /\ stress_pc' = "done"
    /\ UNCHANGED <<baseline_niche, stress_trend, scenarios_to_test, attempted,
                   scenario_results>>
    /\ UNCHANGED evaluationVars
    /\ UNCHANGED batchVars
    /\ UNCHANGED dataVars

NextStress ==
    \/ \E outcome \in TrendOutcomes, draw \in NicheDraws :
           CreateNicheForTesting(outcome, draw)
    \/ \E outcome \in TrendOutcomes : GetTrendAnalysis(outcome)
    \/ \E include_all_scenarios \in BOOLEAN, custom_scenarios \in CustomScenarioLists :
           DetermineScenarios(include_all_scenarios, custom_scenarios)
    \/ SimulateScenario
    \/ CompileReport

SpecStress == InitStress /\ [][NextStress]_vars

----------------------------------------------------------------------------
(* The StressTester methods and the aggregation called on their own *)

\* profitability, market size and confidence of the Niches handed to
\* simulate_scenario: all zero, or a strong Niche
TesterScores ==
    {[profitability |-> 0, market_size |-> 0, confidence |-> 0],
     [profitability |-> 8500, market_size |-> 7500, confidence |-> 9000]}

\* Niches with the four scores in [0,100]; competition 100 with the other
\* scores 0 has overall score 0
TesterNiches ==
    {Niche__post_init__(
         NicheFields("journal", competition, other.profitability, other.market_size,
                     other.confidence, NoTrend, CompetitorData, Volatility(5000),
                     DefaultPriceRange)).v :
        competition \in {2000, 9000, 10000}, other \in TesterScores}

\* the eight default scenarios and two a caller has built, with severity 1.0
\* (the impact cap is reached) and severity 0.0
TesterScenarios ==
    {DEFAULT_SCENARIOS[k] : k \in 1..Len(DEFAULT_SCENARIOS)}
    \cup {StressTestParameters("market_saturation", 10000, 24, 6, 0),
          StressTestParameters("platform_changes", 0, 1, 1, 10000)}

\* trend_analysis: None, and an analysis for the one scenario that reads it
TesterTrends(scenario_params) ==
    IF scenario_params.scenario = "trend_reversal"
    THEN {NoTrend, Trend(80, "rising", "strong", 80, EmptySeasonal)}
    ELSE {NoTrend}

\* a ScenarioResult with the given resilience and scenario probability, as
\* simulate_scenario builds it from an initial score of 100
ResultOf(resilience, probability) ==
    [scenario |-> "platform_changes",
     parameters |-> StressTestParameters("platform_changes", 5000, 3, 9, probability),
     initial_score |-> 10000,
     stressed_score |-> resilience,
     recovery_score |-> resilience,
     impact_percentage |-> 10000 - resilience,
     resilience_score |-> resilience,
     survival_probability |-> 5000,
     key_vulnerabilities |-> {},
     mitigation_strategies |-> 0]

\* scenario_results lists at and around the thresholds of the risk profile
TesterResultLists ==
    {<<>>,
     <<ResultOf(8000, 3000)>>, <<ResultOf(7990, 3000)>>,
     <<ResultOf(6000, 3000)>>, <<ResultOf(5990, 3000)>>,
     <<ResultOf(4000, 3000)>>, <<ResultOf(3990, 3000)>>,
     <<ResultOf(10000, 10000), ResultOf(4000, 100)>>,
     <<ResultOf(10000, 10000), ResultOf(4000, 100), ResultOf(4000, 100)>>,
     <<ResultOf(10000, 10000), ResultOf(4000, 100), ResultOf(4000, 100),
       ResultOf(4000, 100), ResultOf(4000, 100)>>,
     <<ResultOf(7000, 10000), ResultOf(4000, 100), ResultOf(4000, 100),
       ResultOf(4000, 100)>>,
     <<ResultOf(7000, 10000), ResultOf(4000, 100), ResultOf(4000, 100),
       ResultOf(4000, 100), ResultOf(4000, 100)>>,
     <<ResultOf(8000, 0), ResultOf(4000, 0)>>}

InitTester ==
    /\ pc = "idle"
    /\ exc = "none"
    /\ min_score = 6000
    /\ max_competition = "medium"
    /\ limit = 1
    /\ trend_analyses = NoAnalyses
    /\ promising = <<>>
    /\ competition_data = NoCompetition
    /\ niches = <<>>
    /\ scored = <<>>
    /\ top = <<>>
    /\ calls = <<>>
    /\ StressIdle
    /\ DataIdle
    /\ BatchIdle

\* StressTester.simulate_scenario(niche, scenario_params, trend_analysis)
CallSimulateScenario(n, scenario_params, trend_analysis) ==
    /\ calls' = Record([fn |-> "simulate_scenario",
                        input |-> [niche |-> n, parameters |-> scenario_params,
                                   trend_analysis |-> trend_analysis],
                        result |-> simulate_scenario(n, scenario_params, trend_analysis)])
    /\ UNCHANGED <<pc, exc, min_score, max_competition, limit, trend_analyses,
                   promising, competition_data, niches, scored, top>>
    /\ UNCHANGED stressVars
    /\ UNCHANGED dataVars
    /\ UNCHANGED batchVars

\* the aggregation of niche_stress_test, lines 520-523: the overall
\* resilience, then the risk profile from it
CallDetermineRiskProfile(results) ==
    /\ calls' = Record([fn |-> "_determine_risk_profile",
                        input |-> [results |-> results,
                                   overall_resilience |->
                                       _calculate_overall_resilience(results)],
                        result |-> Ok(_determine_risk_profile(
                                          results,
                                          _calculate_overall_resilience(results)))])
    /\ UNCHANGED <<pc, exc, min_score, max_competition, limit, trend_analyses,
                   promising, competition_data, niches, scored, top>>
    /\ UNCHANGED stressVars
    /\ UNCHANGED dataVars
    /\ UNCHANGED batchVars

NextTester ==
    \/ \E n \in TesterNiches, scenario_params \in TesterScenarios :
           \E trend_analysis \in TesterTrends(scenario_params) :
               CallSimulateScenario(n, scenario_params, trend_analysis)
    \/ \E results \in TesterResultLists : CallDetermineRiskProfile(results)

SpecTester == InitTester /\ [][NextTester]_vars

----------------------------------------------------------------------------
(* agent/tools/niche_discovery.py: _batch_analyze_trends                   *)
(*                                                                         *)
(* keywords are held as positions 1..len(keywords).  The function is       *)
(* followed with the two kinds of client it can be handed: the repository's*)
(* TrendsClient, whose get_trend_analysis is a plain method that performs  *)
(* the lookup during the call and returns its result, and a client whose   *)
(* get_trend_analysis returns an awaitable, which asyncio.gather then runs.*)

batch_size == 5

\* how a lookup ends: a TrendAnalysis, None, or an exception
LookupOutcomes == {"analysis", "none", "exception"}

\* 0-based number of the batch a keyword position falls in
BatchNumber(k) == (k - 1) \div batch_size

\* batch = keywords[i:i + batch_size], as positions
Batch(i) == {k \in 1..batch_keywords : i < k /\ k <= i + batch_size}

\* the position the inner for loop is at: the first of the batch without a task
NextInBatch == CHOOSE k \in Batch(batch_i) :
                   /\ lookup[k] = "pending"
                   /\ \A j \in Batch(batch_i) : lookup[j] = "pending" => k <= j

InitBatch ==
    /\ pc = "idle"
    /\ exc = "none"
    /\ min_score = 6000
    /\ max_competition = "medium"
    /\ limit = 1
    /\ trend_analyses = NoAnalyses
    /\ promising = <<>>
    /\ competition_data = NoCompetition
    /\ niches = <<>>
    /\ scored = <<>>
    /\ top = <<>>
    /\ calls = <<>>
    /\ StressIdle
    /\ DataIdle
    /\ batch_pc = "idle"
    /\ awaitable \in BOOLEAN
    /\ batch_keywords \in 0..MaxKeywords
    /\ batch_i = 0
    /\ lookup = [k \in 1..MaxKeywords |-> "pending"]
    /\ started = [k \in 1..MaxKeywords |-> 0]
    /\ delays = 0
    /\ analysed = {}
    /\ batch_exc = "none"

\* for i in range(0, len(keywords), batch_size): the first batch, or the
\* return of the empty dict
EnterLoop ==
    /\ batch_pc = "idle"
    /\ batch_i' = 0
    /\ batch_pc' = IF batch_keywords = 0 THEN "done" ELSE "tasks"
    /\ UNCHANGED <<awaitable, batch_keywords, lookup, started, delays, analysed,
                   batch_exc>>
    /\ UNCHANGED evaluationVars
    /\ UNCHANGED stressVars
    /\ UNCHANGED dataVars

\* the inner loop has gone through the batch
TasksMade(k) == \A j \in Batch(batch_i) : j > k => lookup[j] # "pending"

\* task = trends_client.get_trend_analysis(keyword, ...); tasks.append(task).
\* A plain method runs the lookup here: its exception leaves the function,
\* its result (a TrendAnalysis or None) becomes the "task".  A coroutine
\* function only creates the coroutine.
CallGetTrendAnalysis(outcome) ==
    /\ batch_pc = "tasks"
    /\ IF awaitable
       THEN /\ lookup' = [lookup EXCEPT ![NextInBatch] = "created"]
            /\ batch_pc' = IF TasksMade(NextInBatch) THEN "gather" ELSE "tasks"
            /\ UNCHANGED <<started, batch_exc>>
       ELSE /\ lookup' = [lookup EXCEPT ![NextInBatch] = outcome]
            /\ started' = [started EXCEPT ![NextInBatch] = @ + 1]
            /\ batch_pc' = IF outcome = "exception" THEN "raised"
                           ELSE IF TasksMade(NextInBatch) THEN "gather"
                           ELSE "tasks"
            /\ batch_exc' = IF outcome = "exception" THEN "Exception" ELSE batch_exc
    /\ UNCHANGED <<awaitable, batch_keywords, batch_i, delays, analysed>>
    /\ UNCHANGED evaluationVars
    /\ UNCHANGED stressVars
    /\ UNCHANGED dataVars

\* batch_results = await asyncio.gather(*tasks, return_exceptions=True):
\* gather schedules the awaitables; handed a TrendAnalysis or None it raises
\* TypeError
Gather ==
    /\ batch_pc = "gather"
    /\ IF awaitable
       THEN /\ lookup' = [k \in 1..MaxKeywords |->
                             IF lookup[k] = "created" THEN "in_flight" ELSE lookup[k]]
            /\ started' = [k \in 1..MaxKeywords |->
                              IF lookup[k] = "created" THEN started[k] + 1
                              ELSE started[k]]
            /\ batch_pc' = "waiting"
            /\ UNCHANGED batch_exc
       ELSE /\ batch_pc' = "raised"
            /\ batch_exc' = "TypeError"
            /\ UNCHANGED <<lookup, started>>
    /\ UNCHANGED <<awaitable, batch_keywords, batch_i, delays, analysed>>
    /\ UNCHANGED evaluationVars
    /\ UNCHANGED stressVars
    /\ UNCHANGED dataVars

\* one of the lookups gather is waiting for ends
CompleteLookup(k, outcome) ==
    /\ batch_pc = "waiting"
    /\ lookup[k] = "in_flight"
    /\ lookup' = [lookup EXCEPT ![k] = outcome]
    /\ UNCHANGED <<batch_pc, awaitable, batch_keywords, batch_i, started, delays,
                   analysed, batch_exc>>
    /\ UNCHANGED evaluationVars
    /\ UNCHANGED stressVars
    /\ UNCHANGED dataVars

\* gather returns when every lookup of the batch has ended; the results
\* that are a TrendAnalysis enter the dict; more keywords: sleep, else return
ProcessResults ==
    /\ batch_pc = "waiting"
    /\ \A k \in Batch(batch_i) : lookup[k] # "in_flight"
    /\ analysed' = analysed \cup {k \in Batch(batch_i) : lookup[k] = "analysis"}
    /\ batch_pc' = IF batch_i + batch_size < batch_keywords THEN "sleep" ELSE "done"
    /\ UNCHANGED <<awaitable, batch_keywords, batch_i, lookup, started, delays,
                   batch_exc>>
    /\ UNCHANGED evaluationVars
    /\ UNCHANGED stressVars
    /\ UNCHANGED dataVars

\* await asyncio.sleep(2), then the next batch
Sleep ==
    /\ batch_pc = "sleep"
    /\ delays' = delays + 1
    /\ batch_i' = batch_i + batch_size
    /\ batch_pc' = "tasks"
    /\ UNCHANGED <<awaitable, batch_keywords, lookup, started, analysed, batch_exc>>
    /\ UNCHANGED evaluationVars
    /\ UNCHANGED stressVars
    /\ UNCHANGED dataVars

NextBatch ==
    \/ EnterLoop
    \/ \E outcome \in LookupOutcomes : CallGetTrendAnalysis(outcome)
    \/ Gather
    \/ \E k \in 1..MaxKeywords, outcome \in LookupOutcomes : CompleteLookup(k, outcome)
    \/ ProcessResults
    \/ Sleep

SpecBatch == InitBatch /\ [][NextBatch]_vars

----------------------------------------------------------------------------
(* agent/tools/niche_discovery.py: KeywordExpander                         *)
(*                                                                         *)
(* A keyword string is held as its words and the form of its seed: "lower" *)
(* (already clean), "upper" (some capital letters) or "padded" (blanks     *)
(* around it).  Two strings are equal when words and form are equal.       *)

\* KeywordExpander.MODIFIERS[category]
MODIFIERS(category) ==
    CASE category = "journal" ->
          <<"journal", "notebook", "diary", "planner", "log", "tracker", "organizer">>
    [] category = "audience" ->
          <<"kids", "children", "teens", "adults", "seniors", "women", "men", "professionals">>
    [] category = "purpose" ->
          <<"daily", "weekly", "monthly", "travel", "work", "personal", "business", "creative">>
    [] category = "style" ->
          <<"lined", "dotted", "blank", "guided", "prompted", "illustrated", "minimalist">>
    [] category = "theme" ->
          <<"gratitude", "mindfulness", "fitness", "productivity", "self-care", "goals">>

\* MODIFIERS.keys(), in insertion order
Categories == <<"journal", "audience", "purpose", "style", "theme">>

\* list(itertools.combinations(MODIFIERS.keys(), 2))[:5]
modifier_pairs ==
    <<<<"journal", "audience">>, <<"journal", "purpose">>, <<"journal", "style">>,
      <<"journal", "theme">>, <<"audience", "purpose">>>>

\* the modifiers of all categories, in the order the two outer loops visit them
AllModifiers ==
    MODIFIERS(Categories[1]) \o MODIFIERS(Categories[2]) \o MODIFIERS(Categories[3])
    \o MODIFIERS(Categories[4]) \o MODIFIERS(Categories[5])

\* len(word); "unabridged" stands for a seed word of 101 characters
WordLen(word) ==
    CASE word \in {"log", "men"} -> 3
      [] word \in {"kids", "work"} -> 4
      [] word \in {"blank", "daily", "diary", "goals", "lined", "teens",
              "women"} -> 5
      [] word \in {"adults", "dotted", "guided", "travel", "weekly"} -> 6
      [] word \in {"fitness", "journal", "monthly", "planner", "seniors",
              "tracker"} -> 7
      [] word \in {"business", "children", "creative", "notebook",
              "personal", "prompted"} -> 8
      [] word \in {"gratitude", "organizer", "self-care"} -> 9
      [] word \in {"minimalist"} -> 10
      [] word \in {"illustrated", "mindfulness"} -> 11
      [] word \in {"productivity"} -> 12
      [] word \in {"professionals"} -> 13
      [] word = "unabridged" -> 101

\* a seed keyword as the caller wrote it
Seed(words, form) == [words |-> words, form |-> form]

\* f"{modifier} {base_keyword}", f"{base_keyword} {modifier}" and
\* f"{mod1} {base_keyword} {mod2}"
Phrase(pre, base_keyword, post) ==
    [words |-> pre \o base_keyword.words \o post, form |-> base_keyword.form]

\* the 2 x 36 strings of the single-modifier loop, in the order they are added
SinglePhrases(base_keyword) ==
    [n \in 1..(2 * Len(AllModifiers)) |->
        IF n % 2 = 1
        THEN Phrase(<<AllModifiers[(n + 1) \div 2]>>, base_keyword, <<>>)
        ELSE Phrase(<<>>, base_keyword, <<AllModifiers[n \div 2]>>)]

\* modifier_pairs[:5], cls.MODIFIERS[cat1][:3], cls.MODIFIERS[cat2][:3]: the
\* number of passes of the innermost two-modifier loop
PairAdds == 5 * 3 * 3

\* the 5 x 3 x 3 strings of the two-modifier loop, in the order they are added
PairPhrases(base_keyword) ==
    [n \in 1..PairAdds |->
        Phrase(<<MODIFIERS(modifier_pairs[((n - 1) \div 9) + 1][1])[(((n - 1) % 9) \div 3) + 1]>>,
               base_keyword,
               <<MODIFIERS(modifier_pairs[((n - 1) \div 9) + 1][2])[((n - 1) % 3) + 1]>>)]

\* every add the loops can reach, in program order: set(base_keywords),
\* then for each base keyword the single-modifier adds and the
\* two-modifier adds
AddsPerBase == 2 * Len(AllModifiers) + PairAdds

BaseAdds(base_keyword) == SinglePhrases(base_keyword) \o PairPhrases(base_keyword)

RECURSIVE AddsFrom(_, _)
AddsFrom(base_keywords, b) ==
    IF b > Len(base_keywords) THEN <<>>
    ELSE BaseAdds(base_keywords[b]) \o AddsFrom(base_keywords, b + 1)

Adds(base_keywords) == base_keywords \o AddsFrom(base_keywords, 1)

\* positions in Adds of the single-modifier adds of the b-th base keyword,
\* and of its first t two-modifier adds
SingleIdx(seeds, b) ==
    {seeds + (b - 1) * AddsPerBase + n : n \in 1..(2 * Len(AllModifiers))}

PairIdx(seeds, b, t) ==
    {seeds + (b - 1) * AddsPerBase + 2 * Len(AllModifiers) + n : n \in 1..t}

\* len(expanded) once the adds at the positions idx have been made
SizeAfter(adds, idx) == Cardinality({adds[m] : m \in idx})

\* how many two-modifier adds the b-th base keyword gets: the loops break
\* after the first add that leaves len(expanded) >= max_combinations
PairsRun(adds, before, seeds, b, max_combinations) ==
    IF SizeAfter(adds, before \cup PairIdx(seeds, b, PairAdds)) < max_combinations
    THEN PairAdds
    ELSE CHOOSE t \in 1..PairAdds :
           /\ SizeAfter(adds, before \cup PairIdx(seeds, b, t)) >= max_combinations
           /\ \/ t = 1
              \/ SizeAfter(adds, before \cup PairIdx(seeds, b, t - 1)) < max_combinations

\* the positions executed up to and including the b-th base keyword, given
\* those executed before its two-modifier loop
WithPairs(adds, before, seeds, b, max_combinations) ==
    before \cup PairIdx(seeds, b, PairsRun(adds, before, seeds, b, max_combinations))

RECURSIVE Executed(_, _, _, _, _)
\* the positions of the adds that are executed, from the b-th base keyword on
Executed(adds, before, seeds, b, max_combinations) ==
    IF b > seeds THEN before
    ELSE Executed(adds,
                  WithPairs(adds, before \cup SingleIdx(seeds, b), seeds, b,
                            max_combinations),
                  seeds, b + 1, max_combinations)

\* the adds with their positions
Indexed(adds) == [n \in 1..Len(adds) |-> [pos |-> n, phrase |-> adds[n]]]

\* expanded after the loops, as the list of its elements in the order they
\* were first added: an executed add enters unless an earlier one was equal
ExpandedList(adds, executed) ==
    SelectSeq(Indexed(adds),
              LAMBDA e : /\ e.pos \in executed
                         /\ \A m \in 1..(e.pos - 1) :
                                m \in executed => adds[m] # e.phrase)

\* expanded when the loops over base_keywords have ended; it starts as
\* set(base_keywords)
Expanded(adds, seeds, max_combinations) ==
    ExpandedList(adds, Executed(adds, 1..seeds, seeds, 1, max_combinations))

\* the orders in which "for keyword in expanded" may visit the set: the
\* order of a set of str follows the strings' hashes, which change from one
\* interpreter process to the next (hash randomization)
IterationOrders == {"as_added", "reversed"}

\* the elements of the set in one of the iteration orders
Iterate(expanded, order) ==
    IF order = "reversed"
    THEN [n \in 1..Len(expanded) |-> expanded[Len(expanded) + 1 - n].phrase]
    ELSE [n \in 1..Len(expanded) |-> expanded[n].phrase]

RECURSIVE CharCount(_)
\* len(keyword) after cleaning: the words joined by single blanks
CharCount(words) ==
    IF words = <<>> THEN 0
    ELSE WordLen(Head(words)) + (IF Len(words) > 1 THEN 1 ELSE 0)
         + CharCount(Tail(words))

\* re.sub(r'\s+', ' ', keyword.strip().lower())
Cleaned(keyword) == [words |-> keyword.words, form |-> "lower"]

\* "if len(keyword) <= 100 and len(keyword.split()) <= 6"
KeepKeyword(keyword) == CharCount(keyword.words) <= 100 /\ Len(keyword.words) <= 6

\* the keywords of the cleaning loop that are kept, in the order visited
Kept(visited) == SelectSeq(visited, KeepKeyword)

\* cleaned.append(keyword) for the keywords kept
CleanAll(kept) == [n \in 1..Len(kept) |-> Cleaned(kept[n])]

\* the cleaning loop: clean, keep at most 100 characters and 6 words
CleanAndFilter(visited) == CleanAll(Kept(visited))

\* cleaned[:max_combinations], max_combinations >= 0
Truncate(cleaned, max_combinations) ==
    SubSeq(cleaned, 1, Min(max_combinations, Len(cleaned)))

\* KeywordExpander.expand_keywords, for the iteration order of the set
expand_keywords(base_keywords, max_combinations, order) ==
    Truncate(CleanAndFilter(Iterate(Expanded(Adds(base_keywords), Len(base_keywords),
                                             max_combinations),
                                    order)),
             max_combinations)

\* seed lists: empty, one seed, the same seed in two spellings, a seed that
\* is too long on its own
SeedLists ==
    {<<>>,
     <<Seed(<<"journal">>, "lower")>>,
     <<Seed(<<"journal">>, "upper"), Seed(<<"journal">>, "lower")>>,
     <<Seed(<<"unabridged">>, "padded")>>}

\* max_combinations: below the size of one seed's expansion, and the 200
\* find_profitable_niches passes
MaxCombinations == {3, 200}

InitExpander ==
    /\ pc = "idle"
    /\ exc = "none"
    /\ min_score = 6000
    /\ max_competition = "medium"
    /\ limit = 1
    /\ trend_analyses = NoAnalyses
    /\ promising = <<>>
    /\ competition_data = NoCompetition
    /\ niches = <<>>
    /\ scored = <<>>
    /\ top = <<>>
    /\ calls = <<>>
    /\ StressIdle
    /\ DataIdle
    /\ BatchIdle

\* one run of KeywordExpander.expand_keywords(base_keywords, max_combinations)
ExpandKeywords(base_keywords, max_combinations, order) ==
    /\ calls' = Record([fn |-> "expand_keywords",
                        input |-> [base_keywords |-> base_keywords,
                                   max_combinations |-> max_combinations],
                        result |-> Ok(expand_keywords(base_keywords, max_combinations,
                                                      order))])
    /\ UNCHANGED <<pc, exc, min_score, max_competition, limit, trend_analyses,
                   promising, competition_data, niches, scored, top>>
    /\ UNCHANGED stressVars
    /\ UNCHANGED dataVars
    /\ UNCHANGED batchVars

NextExpander ==
    \E base_keywords \in SeedLists, max_combinations \in MaxCombinations,
       order \in IterationOrders :
        ExpandKeywords(base_keywords, max_combinations, order)

SpecExpander == InitExpander /\ [][NextExpander]_vars

----------------------------------------------------------------------------
(* Settings: src/config/settings.py *)

\* a Python float: a number in ten-thousandths, or nan, inf, -inf
Num(v) == [kind |-> "num", v |-> v]

NaN == [kind |-> "nan", v |-> 0]

PosInf == [kind |-> "inf", v |-> 0]

NegInf == [kind |-> "-inf", v |-> 0]

\* the decimal texts the environments below use, in ten-thousandths
Decimal(text) ==
    CASE text = "0.3" -> 3000
      [] text = "0.301" -> 3010
      [] text = "0.3011" -> 3011
      [] text = "0.4" -> 4000
      [] text = "0.5" -> 5000
      [] text = "0.7" -> 7000
      [] text = "1.5" -> 15000
      [] text = "50.0" -> 500000
      [] text = "70.0" -> 700000
      [] text = "150.0" -> 1500000

DecimalTexts == {"0.3", "0.301", "0.3011", "0.4", "0.5", "0.7", "1.5", "50.0", "70.0", "150.0"}

\* float(text)
float(text) ==
    CASE text = "nan" -> Ok(NaN)
      [] text = "inf" -> Ok(PosInf)
      [] text = "-inf" -> Ok(NegInf)
      [] text \in DecimalTexts -> Ok(Num(Decimal(text)))
      [] OTHER -> Raise("ValueError")

\* int(text)
int(text) ==
    CASE text = "0" -> Ok(0)
      [] text = "60" -> Ok(60)
      [] text = "3600" -> Ok(3600)
      [] text = "8000" -> Ok(8000)
      [] text = "70000" -> Ok(70000)
      [] OTHER -> Raise("ValueError")

\* a + b on floats
FloatAdd(a, b) ==
    CASE a.kind = "nan" \/ b.kind = "nan" -> NaN
      [] a.kind = "inf" -> IF b.kind = "-inf" THEN NaN ELSE PosInf
      [] a.kind = "-inf" -> IF b.kind = "inf" THEN NaN ELSE NegInf
      [] b.kind \in {"inf", "-inf"} -> b
      [] OTHER -> Num(a.v + b.v)

\* abs(a - b) for a finite b
FloatAbsDiff(a, b) ==
    CASE a.kind = "nan" -> NaN
      [] a.kind \in {"inf", "-inf"} -> PosInf
      [] OTHER -> Num(IF a.v >= b.v THEN a.v - b.v ELSE b.v - a.v)

\* a < b for a finite b: every comparison with nan is False
FloatLess(a, b) ==
    CASE a.kind = "nan" -> FALSE
      [] a.kind = "inf" -> FALSE
      [] a.kind = "-inf" -> TRUE
      [] OTHER -> a.v < b.v

\* a > b for a finite b
FloatGreater(a, b) ==
    CASE a.kind = "nan" -> FALSE
      [] a.kind = "inf" -> TRUE
      [] a.kind = "-inf" -> FALSE
      [] OTHER -> a.v > b.v

\* lo <= a <= hi for finite lo, hi
FloatBetween(lo, a, hi) ==
    /\ a.kind # "nan"
    /\ ~FloatLess(a, lo)
    /\ ~FloatGreater(a, hi)

\* str.upper() on the log-level texts
Upper(text) ==
    CASE text = "debug" -> "DEBUG"
      [] text = "info" -> "INFO"
      [] OTHER -> text

\* an environment variable that is not set
Unset == "<unset>"

\* os.getenv(name, default)
getenv(environ, name, default) ==
    IF environ[name] = Unset THEN default ELSE environ[name]

\* the environment variables the configuration reads that are varied here
NoEnviron ==
    [ENVIRONMENT |-> Unset, KEEPA_API_KEY |-> Unset, KEEPA_RATE_LIMIT |-> Unset,
     CACHE_TYPE |-> Unset, CACHE_TTL |-> Unset, TREND_WEIGHT |-> Unset,
     COMPETITION_WEIGHT |-> Unset, PROFITABILITY_WEIGHT |-> Unset,
     MIN_PROFITABILITY_SCORE |-> Unset, SIMILARITY_THRESHOLD |-> Unset,
     LOG_LEVEL |-> Unset, MCP_TRANSPORT_TYPE |-> Unset, MCP_PORT |-> Unset]

\* the texts the default factories hand to int() and float()
Parsed(environ) ==
    [keepa_rate_limit |-> int(getenv(environ, "KEEPA_RATE_LIMIT", "60")),
     default_ttl |-> int(getenv(environ, "CACHE_TTL", "3600")),
     port |-> int(getenv(environ, "MCP_PORT", "8000")),
     trend_weight |-> float(getenv(environ, "TREND_WEIGHT", "0.4")),
     competition_weight |-> float(getenv(environ, "COMPETITION_WEIGHT", "0.3")),
     profitability_weight |-> float(getenv(environ, "PROFITABILITY_WEIGHT", "0.3")),
     min_profitability_score |-> float(getenv(environ, "MIN_PROFITABILITY_SCORE", "50.0")),
     similarity_threshold |-> float(getenv(environ, "SIMILARITY_THRESHOLD", "0.7"))]

\* every int() and float() of the default factories returns
ParsesOk(environ) == \A f \in DOMAIN Parsed(environ) : Parsed(environ)[f].kind = "ok"

\* the fields of Settings after the dataclass __init__, before __post_init__;
\* the variables not varied here keep their defaults
FieldsOf(environ, parsed) ==
    [environment |-> getenv(environ, "ENVIRONMENT", "development"),
     api |-> [keepa_api_key |-> environ.KEEPA_API_KEY,
              keepa_rate_limit |-> parsed.keepa_rate_limit.v,
              trends_rate_limit |-> 30,
              request_timeout |-> 30],
     cache |-> [cache_type |-> getenv(environ, "CACHE_TYPE", "file"),
                redis_url |-> Unset,
                redis_host |-> "localhost",
                redis_port |-> 6379,
                default_ttl |-> parsed.default_ttl.v],
     business |-> [trend_weight |-> parsed.trend_weight.v,
                   competition_weight |-> parsed.competition_weight.v,
                   profitability_weight |-> parsed.profitability_weight.v,
                   min_profitability_score |-> parsed.min_profitability_score.v,
                   max_competition_score |-> Num(700000)],
     models |-> [similarity_threshold |-> parsed.similarity_threshold.v,
                 max_keywords_per_query |-> 50],
     logging |-> [level |-> getenv(environ, "LOG_LEVEL", "INFO")],
     mcp |-> [transport_type |-> getenv(environ, "MCP_TRANSPORT_TYPE", "stdio"),
              port |-> parsed.port.v]]

Fields(environ) == FieldsOf(environ, Parsed(environ))

\* the values of the Environment enum
EnvironmentValues == {"development", "testing", "production"}

valid_cache_types == {"file", "redis", "memory"}

valid_log_levels == {"DEBUG", "INFO", "WARNING", "ERROR", "CRITICAL"}

valid_transport_types == {"stdio", "sse", "websocket"}

\* "not self.api.keepa_api_key": None or the empty string
Falsy(text) == text \in {Unset, ""}

\* weights_sum
WeightsSum(self) ==
    FloatAdd(FloatAdd(self.business.trend_weight, self.business.competition_weight),
             self.business.profitability_weight)

\* the rules of _validate_config a configuration breaks, by the variable
\* their message names
Errors(self) ==
    {rule \in {"ENVIRONMENT", "KEEPA_API_KEY", "KEEPA_RATE_LIMIT", "TRENDS_RATE_LIMIT",
               "API_REQUEST_TIMEOUT", "CACHE_TYPE", "REDIS", "CACHE_TTL", "WEIGHTS",
               "MIN_PROFITABILITY_SCORE", "MAX_COMPETITION_SCORE",
               "SIMILARITY_THRESHOLD", "MAX_KEYWORDS_PER_QUERY", "LOG_LEVEL",
               "MCP_TRANSPORT_TYPE", "MCP_PORT"} :
        CASE rule = "ENVIRONMENT" -> self.environment \notin EnvironmentValues
          [] rule = "KEEPA_API_KEY" ->
                self.environment = "production" /\ Falsy(self.api.keepa_api_key)
          [] rule = "KEEPA_RATE_LIMIT" -> self.api.keepa_rate_limit <= 0
          [] rule = "TRENDS_RATE_LIMIT" -> self.api.trends_rate_limit <= 0
          [] rule = "API_REQUEST_TIMEOUT" -> self.api.request_timeout <= 0
          [] rule = "CACHE_TYPE" -> self.cache.cache_type \notin valid_cache_types
          [] rule = "REDIS" ->
                /\ self.cache.cache_type = "redis"
                /\ Falsy(self.cache.redis_url)
                /\ ~(~Falsy(self.cache.redis_host) /\ self.cache.redis_port # 0)
          [] rule = "CACHE_TTL" -> self.cache.default_ttl <= 0
          [] rule = "WEIGHTS" ->
                FloatGreater(FloatAbsDiff(WeightsSum(self), Num(10000)), Num(10))
          [] rule = "MIN_PROFITABILITY_SCORE" ->
                ~FloatBetween(Num(0), self.business.min_profitability_score, Num(1000000))
          [] rule = "MAX_COMPETITION_SCORE" ->
                ~FloatBetween(Num(0), self.business.max_competition_score, Num(1000000))
          [] rule = "SIMILARITY_THRESHOLD" ->
                \/ FloatLess(self.models.similarity_threshold, Num(0))
                \/ FloatGreater(self.models.similarity_threshold, Num(10000))
          [] rule = "MAX_KEYWORDS_PER_QUERY" -> self.models.max_keywords_per_query <= 0
          [] rule = "LOG_LEVEL" -> Upper(self.logging.level) \notin valid_log_levels
          [] rule = "MCP_TRANSPORT_TYPE" ->
                self.mcp.transport_type \notin valid_transport_types
          [] rule = "MCP_PORT" -> ~(1 <= self.mcp.port /\ self.mcp.port <= 65535)}

\* _validate_config: raises when the list of errors is not empty
_validate_config(self) ==
    IF Errors(self) # {} THEN Raise("ConfigurationError") ELSE None

\* the outcomes of Path.mkdir(parents=True, exist_ok=True)
MkdirOutcomes == {"made", "OSError"}

\* _setup_directories: LOG_FILE is not set, so only the cache directory is made
_setup_directories(self, mkdir) ==
    IF self.cache.cache_type = "file" /\ mkdir = "OSError" THEN Raise("OSError")
    ELSE None

\* __post_init__: _validate_config, then _setup_directories
Settings__post_init__(self, mkdir) ==
    IF Errors(self) # {} THEN _validate_config(self)
    ELSE IF self.cache.cache_type = "file" /\ mkdir = "OSError"
         THEN _setup_directories(self, mkdir)
         ELSE Ok(self)

\* Settings.from_env(): cls(), that is the default factories, then
\* __post_init__
from_env(environ, mkdir) ==
    IF ~ParsesOk(environ) THEN Raise("ValueError")
    ELSE Settings__post_init__(FieldsOf(environ, Parsed(environ)), mkdir)

\* the environment with the variables named in overrides set
WithEnv(overrides) ==
    [name \in DOMAIN NoEnviron |->
        IF name \in DOMAIN overrides THEN overrides[name] ELSE Unset]

\* the three weight variables
Weights(trend, competition, profitability) ==
    [TREND_WEIGHT |-> trend, COMPETITION_WEIGHT |-> competition,
     PROFITABILITY_WEIGHT |-> profitability]

\* the environments the construction is run in
Environs ==
    {NoEnviron,
     WithEnv([ENVIRONMENT |-> "testing"]),
     WithEnv([ENVIRONMENT |-> "invalid_env"]),
     WithEnv([ENVIRONMENT |-> "production"]),
     WithEnv([ENVIRONMENT |-> "production", KEEPA_API_KEY |-> ""]),
     WithEnv([ENVIRONMENT |-> "production", KEEPA_API_KEY |-> "key"]),
     WithEnv([CACHE_TYPE |-> "invalid_cache"]),
     WithEnv([CACHE_TYPE |-> "redis"]),
     WithEnv([CACHE_TYPE |-> "memory"]),
     WithEnv(Weights("0.5", "0.5", "0.5")),
     WithEnv(Weights("0.4", "0.3", "0.301")),
     WithEnv(Weights("0.4", "0.3", "0.3011")),
     WithEnv(Weights("nan", "0.3", "0.3")),
     WithEnv(Weights("inf", "-inf", "0.3")),
     WithEnv(Weights("inf", "0.3", "0.3")),
     WithEnv(Weights("abc", "0.3", "0.3")),
     WithEnv([ENVIRONMENT |-> "invalid_env", CACHE_TYPE |-> "invalid_cache",
              TREND_WEIGHT |-> "0.5"]),
     WithEnv([KEEPA_RATE_LIMIT |-> "0"]),
     WithEnv([CACHE_TTL |-> "0"]),
     WithEnv([MIN_PROFITABILITY_SCORE |-> "150.0"]),
     WithEnv([MIN_PROFITABILITY_SCORE |-> "nan"]),
     WithEnv([SIMILARITY_THRESHOLD |-> "1.5"]),
     WithEnv([SIMILARITY_THRESHOLD |-> "nan"]),
     WithEnv([LOG_LEVEL |-> "debug"]),
     WithEnv([LOG_LEVEL |-> "VERBOSE"]),
     WithEnv([MCP_TRANSPORT_TYPE |-> "http"]),
     WithEnv([MCP_PORT |-> "0"]),
     WithEnv([MCP_PORT |-> "70000"])}

InitSettings ==
    /\ pc = "idle"
    /\ exc = "none"
    /\ min_score = 6000
    /\ max_competition = "medium"
    /\ limit = 1
    /\ trend_analyses = NoAnalyses
    /\ promising = <<>>
    /\ competition_data = NoCompetition
    /\ niches = <<>>
    /\ scored = <<>>
    /\ top = <<>>
    /\ calls = <<>>
    /\ StressIdle
    /\ DataIdle
    /\ BatchIdle

FromEnv(environ, mkdir) ==
    /\ calls' = Record([fn |-> "Settings.from_env",
                        input |-> environ,
                        result |-> from_env(environ, mkdir)])
    /\ UNCHANGED <<pc, exc, min_score, max_competition, limit, trend_analyses,
                   promising, competition_data, niches, scored, top>>
    /\ UNCHANGED stressVars
    /\ UNCHANGED dataVars
    /\ UNCHANGED batchVars

NextSettings == \E environ \in Environs, mkdir \in MkdirOutcomes : FromEnv(environ, mkdir)

SpecSettings == InitSettings /\ [][NextSettings]_vars

----------------------------------------------------------------------------
(* Niche(...) with the class body as it stands: models/niche_model.py *)

\* Niche(...): the generated __init__ sets the fields and calls
\* __post_init__, whose first statement is self._validate_scores(); the
\* class body defines no method of that name. The specifications above take
\* the validators from the data model's statement instead, so that scoring,
\* ranking and stress testing can be examined on their own code.
Niche(fields) ==
    IF ~HasAttr("_validate_scores") THEN Raise("AttributeError")
    ELSE Niche__post_init__(fields)

\* recommended_price_range values a caller may pass, in cents
PriceRanges == {DefaultPriceRange, <<2000, 1000>>, <<1000, 1000>>, <<0, 1000>>}

\* the constructor arguments tried: those of the direct constructions, each
\* with the price ranges above
ConstructorArguments ==
    {[args EXCEPT !.recommended_price_range = price_range] :
        args \in NicheArguments, price_range \in PriceRanges}

InitNiche ==
    /\ pc = "idle"
    /\ exc = "none"
    /\ min_score = 6000
    /\ max_competition = "medium"
    /\ limit = 1
    /\ trend_analyses = NoAnalyses
    /\ promising = <<>>
    /\ competition_data = NoCompetition
    /\ niches = <<>>
    /\ scored = <<>>
    /\ top = <<>>
    /\ calls = <<>>
    /\ StressIdle
    /\ DataIdle
    /\ BatchIdle

\* a caller constructs a Niche
ConstructNiche(fields) ==
    /\ calls' = Record([fn |-> "Niche", input |-> fields, result |-> Niche(fields)])
    /\ UNCHANGED <<pc, exc, min_score, max_competition, limit, trend_analyses,
                   promising, competition_data, niches, scored, top>>
    /\ UNCHANGED stressVars
    /\ UNCHANGED dataVars
    /\ UNCHANGED batchVars

NextNiche == \E fields \in ConstructorArguments : ConstructNiche(fields)

SpecNiche == InitNiche /\ [][NextNiche]_vars

----------------------------------------------------------------------------
(* agent/tools/competitor_analysis.py: CompetitorAnalyzer.estimate_monthly_sales *)

BSR_LEVEL_1 == 1

BSR_LEVEL_10 == 10

BSR_LEVEL_100 == 100

BSR_LEVEL_1000 == 1000

BSR_LEVEL_10000 == 10000

BSR_LEVEL_100000 == 100000

BSR_LEVEL_1000000 == 1000000

\* the keys of BSR_SALES_MAPPING
BsrLevels ==
    {BSR_LEVEL_1, BSR_LEVEL_10, BSR_LEVEL_100, BSR_LEVEL_1000, BSR_LEVEL_10000,
     BSR_LEVEL_100000, BSR_LEVEL_1000000}

\* BSR_SALES_MAPPING, the sales in tenths of a unit (0.5 is 5)
BSR_SALES_MAPPING(threshold) ==
    CASE threshold = BSR_LEVEL_1 -> 30000
      [] threshold = BSR_LEVEL_10 -> 15000
      [] threshold = BSR_LEVEL_100 -> 3000
      [] threshold = BSR_LEVEL_1000 -> 500
      [] threshold = BSR_LEVEL_10000 -> 100
      [] threshold = BSR_LEVEL_100000 -> 20
      [] threshold = BSR_LEVEL_1000000 -> 5

\* the first threshold, in sorted order, with bsr <= threshold
FirstThreshold(bsr) ==
    CHOOSE threshold \in BsrLevels :
        /\ bsr <= threshold
        /\ \A other \in BsrLevels : bsr <= other => threshold <= other

\* int(BSR_SALES_MAPPING[BSR_LEVEL_1000000] * (BSR_LEVEL_1000000 / bsr)), in
\* units: the product 0.5 * 1000000 / bsr truncated
Extrapolated(bsr) == ((BSR_SALES_MAPPING(BSR_LEVEL_1000000) * BSR_LEVEL_1000000) \div 10) \div bsr

\* estimate_monthly_sales(bsr), in tenths of a unit; a bsr of None takes the
\* branch of 0
estimate_monthly_sales(bsr) ==
    IF bsr = 0 \/ bsr <= 0 THEN None
    ELSE IF \E threshold \in BsrLevels : bsr <= threshold
         THEN Ok(BSR_SALES_MAPPING(FirstThreshold(bsr)))
         ELSE Ok(10 * Max(1, Extrapolated(bsr)))

\* best-seller ranks around every threshold of the table and beyond it
Ranks ==
    {-5, 0, 1, 2, 10, 11, 100, 101, 1000, 1001, 10000, 10001, 100000, 100001,
     999999, 1000000, 1000001, 2000000, 50000000}

InitSales ==
    /\ pc = "idle"
    /\ exc = "none"
    /\ min_score = 6000
    /\ max_competition = "medium"
    /\ limit = 1
    /\ trend_analyses = NoAnalyses
    /\ promising = <<>>
    /\ competition_data = NoCompetition
    /\ niches = <<>>
    /\ scored = <<>>
    /\ top = <<>>
    /\ calls = <<>>
    /\ StressIdle
    /\ DataIdle
    /\ BatchIdle

EstimateMonthlySales(bsr) ==
    /\ calls' = Record([fn |-> "estimate_monthly_sales", input |-> bsr,
                        result |-> estimate_monthly_sales(bsr)])
    /\ UNCHANGED <<pc, exc, min_score, max_competition, limit, trend_analyses,
                   promising, competition_data, niches, scored, top>>
    /\ UNCHANGED stressVars
    /\ UNCHANGED dataVars
    /\ UNCHANGED batchVars

NextSales == \E bsr \in Ranks : EstimateMonthlySales(bsr)

SpecSales == InitSales /\ [][NextSales]_vars

----------------------------------------------------------------------------
(* models/trend_model.py: TrendAnalysis; data/trends_client.py: the forecast *)

\* a score x on the 0-100 scale as a float
Score(x) == Num(x * 10000)

\* "not 0 <= value <= 100"
OutOfRange(value) == ~FloatBetween(Score(0), value, Score(100))

\* TrendAnalysis._validate_scores
TrendAnalysis_validate_scores(self) ==
    IF \/ OutOfRange(self.trend_score)
       \/ OutOfRange(self.confidence_level)
       \/ OutOfRange(self.volatility_score)
    THEN Raise("ValueError") ELSE None

\* TrendAnalysis._validate_keyword: "not self.keyword or not self.keyword.strip()"
_validate_keyword(self) ==
    IF self.keyword \in {"", "   "} THEN Raise("ValueError") ELSE None

\* a forecast check that looks at the length only
ValidateForecastLengthOnly(self) ==
    IF self.forecast_6_months # <<>> /\ Len(self.forecast_6_months) # 6
    THEN Raise("ValueError") ELSE None

\* TrendAnalysis._validate_forecast: a non-empty forecast has exactly 6
\* values, each between 0 and 100
_validate_forecast(self) ==
    IF self.forecast_6_months = <<>> THEN None
    ELSE IF Len(self.forecast_6_months) # 6 THEN Raise("ValueError")
    ELSE IF \E m \in 1..Len(self.forecast_6_months) :
                OutOfRange(self.forecast_6_months[m])
         THEN Raise("ValueError")
         ELSE None

\* TrendAnalysis._determine_trend_strength
_determine_trend_strength(self) ==
    IF ~FloatGreater(self.trend_score, Score(20)) THEN "very_weak"
    ELSE IF ~FloatGreater(self.trend_score, Score(40)) THEN "weak"
    ELSE IF ~FloatGreater(self.trend_score, Score(60)) THEN "moderate"
    ELSE IF ~FloatGreater(self.trend_score, Score(80)) THEN "strong"
    ELSE "very_strong"

\* TrendAnalysis.__post_init__: the three validations in order, then the
\* strength is set from the score
TrendAnalysis__post_init__(self) ==
    IF TrendAnalysis_validate_scores(self).kind = "raise"
    THEN TrendAnalysis_validate_scores(self)
    ELSE IF _validate_keyword(self).kind = "raise" THEN _validate_keyword(self)
    ELSE IF _validate_forecast(self).kind = "raise" THEN _validate_forecast(self)
    ELSE Ok([self EXCEPT !.trend_strength = _determine_trend_strength(self)])

\* the fields of a TrendAnalysis a caller sets
TrendAnalysisFields(keyword, trend_score, forecast_6_months) ==
    [keyword |-> keyword, trend_score |-> trend_score, trend_strength |-> "moderate",
     confidence_level |-> Score(0), volatility_score |-> Score(0),
     forecast_6_months |-> forecast_6_months]

\* min(a, b) and max(a, b) of Python for a finite a: b replaces a only when
\* the comparison b < a (b > a) is True, which it never is for nan
PyMin(a, b) == IF FloatLess(b, a) THEN b ELSE a

PyMax(a, b) == IF FloatGreater(b, a) THEN b ELSE a

\* predicted = max(0, min(100, predicted))
ClampPrediction(predicted) == PyMax(Score(0), PyMin(Score(100), predicted))

\* TrendsClient._generate_forecast(values, months); fit is what np.polyfit
\* and the extrapolation give: an exception, or the predicted values
_generate_forecast(values_len, months, fit) ==
    IF values_len < 3 THEN <<>>
    ELSE IF fit.kind = "raise" THEN <<>>
    ELSE [i \in 1..months |-> ClampPrediction(fit.v[i])]

\* forecasts a caller may pass to the constructor
ForecastArguments ==
    {<<>>,
     <<Score(0), Score(50), Score(100), Score(50), Score(50), Score(50)>>,
     <<Score(50), Score(50), Score(50), Score(50), Score(50)>>,
     <<Score(50), Score(50), Score(50), Score(50), Score(50), Score(50), Score(50)>>,
     <<Score(50), Score(50), Score(101), Score(50), Score(50), Score(50)>>,
     <<Score(50), Score(50), Score(50), Score(50), Score(50), Num(-1)>>,
     <<Score(50), NaN, Score(50), Score(50), Score(50), Score(50)>>,
     <<PosInf>>}

\* the predictions the fit may give for 6 months, before clamping
FitOutcomes ==
    {Raise("LinAlgError"),
     Ok(<<Score(50), Score(60), Score(70), Score(80), Score(90), Score(100)>>),
     Ok(<<Score(90), Score(100), Score(110), Score(120), Score(130), Score(140)>>),
     Ok(<<Score(10), Score(5), Score(0), Num(-50000), Num(-100000), Num(-150000)>>),
     Ok(<<NaN, NaN, NaN, NaN, NaN, NaN>>),
     Ok(<<PosInf, NegInf, Score(50), Score(50), Score(50), Score(50)>>)}

\* len(values) of the interest series
SeriesLengths == {0, 2, 3, 52}

InitForecast ==
    /\ pc = "idle"
    /\ exc = "none"
    /\ min_score = 6000
    /\ max_competition = "medium"
    /\ limit = 1
    /\ trend_analyses = NoAnalyses
    /\ promising = <<>>
    /\ competition_data = NoCompetition
    /\ niches = <<>>
    /\ scored = <<>>
    /\ top = <<>>
    /\ calls = <<>>
    /\ StressIdle
    /\ DataIdle
    /\ BatchIdle

\* TrendAnalysis(...)
ConstructTrendAnalysis(fields) ==
    /\ calls' = Record([fn |-> "TrendAnalysis", input |-> fields,
                        result |-> TrendAnalysis__post_init__(fields)])
    /\ UNCHANGED <<pc, exc, min_score, max_competition, limit, trend_analyses,
                   promising, competition_data, niches, scored, top>>
    /\ UNCHANGED stressVars
    /\ UNCHANGED dataVars
    /\ UNCHANGED batchVars

\* forecast_6m = self._generate_forecast(values, 6)
GenerateForecast(values_len, fit) ==
    /\ calls' = Record([fn |-> "_generate_forecast",
                        input |-> [values_len |-> values_len, fit |-> fit],
                        result |-> Ok(_generate_forecast(values_len, 6, fit))])
    /\ UNCHANGED <<pc, exc, min_score, max_competition, limit, trend_analyses,
                   promising, competition_data, niches, scored, top>>
    /\ UNCHANGED stressVars
    /\ UNCHANGED dataVars
    /\ UNCHANGED batchVars

NextForecast ==
    \/ \E keyword \in {"journal", ""}, trend_score \in {Score(50), Score(150)},
          forecast_6_months \in ForecastArguments :
           ConstructTrendAnalysis(TrendAnalysisFields(keyword, trend_score,
                                                      forecast_6_months))
    \/ \E values_len \in SeriesLengths, fit \in FitOutcomes :
           GenerateForecast(values_len, fit)

SpecForecast == InitForecast /\ [][NextForecast]_vars

----------------------------------------------------------------------------
(* exceptions.py: the rate-limit error *)

\* an Optional[int] that is given and not 0: "if retry_after:"
Given(optional) == optional.kind = "ok" /\ optional.v # 0

\* KDPStrategistError.__init__: "self.details = details or {}"
KDPStrategistError(message, error_code, details) ==
    [message |-> message, error_code |-> error_code, details |-> details]

\* KDPStrategistError.to_dict, without the cause
to_dict(self) ==
    [error |-> self.error_code, message |-> self.message, details |-> self.details]

\* APIClientError.__init__ without status_code and response_data: the
\* details are built here, from the service name
APIClientError(message, service_name, error_code) ==
    KDPStrategistError(message, error_code, [key \in {"service"} |-> service_name])

\* the message of the rate-limit error: the service, and the delay when given
RateLimitMessage(service_name, retry_after) ==
    [text |-> "Rate limit exceeded for", service |-> service_name,
     retry_after |-> IF Given(retry_after) THEN retry_after ELSE None]

\* RateLimitExceededError.__init__: the local dict details (quota_type and
\* retry_after) is built but not handed to super().__init__
RateLimitExceededError(service_name, retry_after, quota_type) ==
    [error |-> APIClientError(RateLimitMessage(service_name, retry_after),
                              service_name, "RATE_LIMIT_EXCEEDED"),
     retry_after |-> retry_after]

\* the arguments tried
ServiceNames == {"keepa", "test_api", "trends"}

RetryAfters == {None, Ok(0), Ok(60), Ok(120)}

QuotaTypes == {"requests", "tokens"}

InitErrors ==
    /\ pc = "idle"
    /\ exc = "none"
    /\ min_score = 6000
    /\ max_competition = "medium"
    /\ limit = 1
    /\ trend_analyses = NoAnalyses
    /\ promising = <<>>
    /\ competition_data = NoCompetition
    /\ niches = <<>>
    /\ scored = <<>>
    /\ top = <<>>
    /\ calls = <<>>
    /\ StressIdle
    /\ DataIdle
    /\ BatchIdle

\* RateLimitExceededError(service_name=..., retry_after=..., quota_type=...)
ConstructRateLimitError(service_name, retry_after, quota_type) ==
    /\ calls' = Record([fn |-> "RateLimitExceededError",
                        input |-> [service_name |-> service_name,
                                   retry_after |-> retry_after,
                                   quota_type |-> quota_type],
                        result |-> RateLimitExceededError(service_name, retry_after,
                                                          quota_type)])
    /\ UNCHANGED <<pc, exc, min_score, max_competition, limit, trend_analyses,
                   promising, competition_data, niches, scored, top>>
    /\ UNCHANGED stressVars
    /\ UNCHANGED dataVars
    /\ UNCHANGED batchVars

NextErrors ==
    \E service_name \in ServiceNames, retry_after \in RetryAfters,
       quota_type \in QuotaTypes :
        ConstructRateLimitError(service_name, retry_after, quota_type)

SpecErrors == InitErrors /\ [][NextErrors]_vars

----------------------------------------------------------------------------
(* cache_manager.py: MemoryCacheBackend *)

\* the backend object
Backend == [cache |-> cache, access_times |-> access_times, max_size |-> max_size]

\* del dict[key]
Without(dict, key) == [k \in DOMAIN dict \ {key} |-> dict[k]]

\* dict[key] = v
With(dict, key, v) == [k \in DOMAIN dict \cup {key} |-> IF k = key THEN v ELSE dict[k]]

\* the keys of access_times
AccessKeys(times) == {times[i].key : i \in 1..Len(times)}

\* access_times.pop(key, None)
Pop(times, key) == SelectSeq(times, LAMBDA e : e.key # key)

\* access_times[key] = t: a key that is present keeps its place in the dict,
\* a new key goes to the end
Touch(times, key, t) ==
    IF key \in AccessKeys(times)
    THEN [i \in 1..Len(times) |->
             IF times[i].key = key THEN [key |-> key, time |-> t] ELSE times[i]]
    ELSE Append(times, [key |-> key, time |-> t])

\* an entry that would never expire
NeverExpired(entry, t) == FALSE

\* MemoryCacheBackend._is_expired at time t
_is_expired(entry, t) == entry.expires_at.kind = "ok" /\ t > entry.expires_at.v

\* a delete that would leave the access time behind
DeleteEntryOnly(self, key) ==
    IF key \in DOMAIN self.cache
    THEN [self |-> [self EXCEPT !.cache = Without(self.cache, key)],
          result |-> TRUE]
    ELSE [self |-> self, result |-> FALSE]

\* MemoryCacheBackend.delete
delete(self, key) ==
    IF key \in DOMAIN self.cache
    THEN [self |-> [self EXCEPT !.cache = Without(self.cache, key),
                                !.access_times = Pop(self.access_times, key)],
          result |-> TRUE]
    ELSE [self |-> self, result |-> FALSE]

\* the key with the greatest access time
mru_key(times) ==
    times[CHOOSE i \in 1..Len(times) :
              \A j \in 1..Len(times) :
                  \/ times[i].time > times[j].time
                  \/ times[i].time = times[j].time /\ i >= j].key

\* min(self.access_times.keys(), key=lambda k: self.access_times[k]): the
\* first key, in the order of the dict, with the least access time
lru_key(times) ==
    times[CHOOSE i \in 1..Len(times) :
              \A j \in 1..Len(times) :
                  \/ times[i].time < times[j].time
                  \/ times[i].time = times[j].time /\ i <= j].key

\* MemoryCacheBackend._evict_lru
_evict_lru(self) ==
    IF self.access_times = <<>> THEN self
    ELSE delete(self, lru_key(self.access_times)).self

\* the entry set() stores at time t
Entry(value, ttl, t) ==
    [value |-> value,
     created_at |-> t,
     expires_at |-> IF ttl.kind = "ok" THEN Ok(t + ttl.v) ELSE None]

\* the assignments of set() after the eviction
Store(self, key, value, ttl, t) ==
    [self EXCEPT !.cache = With(self.cache, key, Entry(value, ttl, t)),
                 !.access_times = Touch(self.access_times, key, t)]

\* MemoryCacheBackend.set at time t; nothing in the try block raises
set(self, key, value, ttl, t) ==
    [self |-> Store(IF /\ Cardinality(DOMAIN self.cache) >= self.max_size
                       /\ key \notin DOMAIN self.cache
                    THEN _evict_lru(self) ELSE self,
                    key, value, ttl, t),
     result |-> TRUE]

\* MemoryCacheBackend.get at time t
get(self, key, t) ==
    IF key \notin DOMAIN self.cache THEN [self |-> self, result |-> None]
    ELSE IF _is_expired(self.cache[key], t)
         THEN [self |-> delete(self, key).self, result |-> None]
         ELSE [self |-> [self EXCEPT !.access_times = Touch(self.access_times, key, t)],
               result |-> Ok(self.cache[key].value)]

\* MemoryCacheBackend.exists at time t
exists(self, key, t) ==
    IF key \notin DOMAIN self.cache THEN [self |-> self, result |-> FALSE]
    ELSE IF _is_expired(self.cache[key], t)
         THEN [self |-> delete(self, key).self, result |-> FALSE]
         ELSE [self |-> self, result |-> TRUE]

\* MemoryCacheBackend.clear
clear(self) ==
    [self |-> [self EXCEPT !.cache = EmptyDict, !.access_times = <<>>],
     result |-> TRUE]

\* expired_keys of cleanup_expired at time t
expired_keys(self, t) == {k \in DOMAIN self.cache : _is_expired(self.cache[k], t)}

\* MemoryCacheBackend.cleanup_expired at time t: every expired key is deleted
cleanup_expired(self, t) ==
    [self |-> [self EXCEPT
                 !.cache = [k \in DOMAIN self.cache \ expired_keys(self, t) |->
                               self.cache[k]],
                 !.access_times = SelectSeq(self.access_times,
                                            LAMBDA e : e.key \notin expired_keys(self, t))],
     result |-> Cardinality(expired_keys(self, t))]

\* the clock is followed up to MaxTime
MaxTime == 2

Keys == {"k1", "k2", "k3"}

Values == {"a", "b"}

\* ttl: None, or seconds
TTLs == {None, Ok(0), Ok(1)}

\* MemoryCacheBackend(max_size)
MaxSizes == {1, 2}

InitCache ==
    /\ pc = "idle"
    /\ exc = "none"
    /\ min_score = 6000
    /\ max_competition = "medium"
    /\ limit = 1
    /\ trend_analyses = NoAnalyses
    /\ promising = <<>>
    /\ competition_data = NoCompetition
    /\ niches = <<>>
    /\ scored = <<>>
    /\ top = <<>>
    /\ calls = <<>>
    /\ StressIdle
    /\ BatchIdle
    /\ cache = EmptyDict
    /\ access_times = <<>>
    /\ max_size \in MaxSizes
    /\ now = 0
    /\ request_pc = "idle"
    /\ max_retries = 0
    /\ retry_delay = 10
    /\ attempt = 0
    /\ responses = <<>>
    /\ sleeps = <<>>
    /\ response = NoPayload

\* the backend after a call, and the call with its result, whether the key
\* was stored and how many entries there were when it was made
Called(fn, key, value, ttl, done) ==
    /\ cache' = done.self.cache
    /\ access_times' = done.self.access_times
    /\ calls' = <<[fn |-> fn, key |-> key, value |-> value, ttl |-> ttl,
                    result |-> done.result,
                    stored |-> key \in DOMAIN cache,
                    size |-> Cardinality(DOMAIN cache)]>>
    /\ UNCHANGED <<max_size, now>>
    /\ UNCHANGED <<pc, exc, min_score, max_competition, limit, trend_analyses,
                   promising, competition_data, niches, scored, top>>
    /\ UNCHANGED stressVars
    /\ UNCHANGED batchVars
    /\ UNCHANGED requestVars

Set(key, value, ttl) ==
    Called("set", key, value, ttl, set(Backend, key, value, ttl, now))

CacheGet(key) == Called("get", key, "", None, get(Backend, key, now))

Exists(key) == Called("exists", key, "", None, exists(Backend, key, now))

Delete(key) == Called("delete", key, "", None, delete(Backend, key))

Clear == Called("clear", "", "", None, clear(Backend))

CleanupExpired ==
    Called("cleanup_expired", "", "", None, cleanup_expired(Backend, now))

\* time passes between two calls
Tick ==
    /\ now < MaxTime
    /\ now' = now + 1
    /\ UNCHANGED <<cache, access_times, max_size>>
    /\ UNCHANGED evaluationVars
    /\ UNCHANGED stressVars
    /\ UNCHANGED batchVars
    /\ UNCHANGED requestVars

NextCache ==
    \/ \E key \in Keys, value \in Values, ttl \in TTLs : Set(key, value, ttl)
    \/ \E key \in Keys : CacheGet(key)
    \/ \E key \in Keys : Exists(key)
    \/ \E key \in Keys : Delete(key)
    \/ Clear
    \/ CleanupExpired
    \/ Tick

SpecCache == InitCache /\ [][NextCache]_vars

----------------------------------------------------------------------------
(* keepa_client.py: KeepaClient._make_request *)

\* what session.request and response.json() can do in one attempt: a
\* response with a status code, whose body is JSON or not, or an exception
HttpResponse(status_code, body) == [kind |-> "response", status_code |-> status_code, body |-> body]

\* requests.exceptions.Timeout
TimeoutException == [kind |-> "Timeout", status_code |-> 0, body |-> ""]

\* another requests.exceptions.RequestException, a refused connection for one
RequestException == [kind |-> "RequestException", status_code |-> 0, body |-> ""]

AttemptOutcomes ==
    {HttpResponse(200, "json"), HttpResponse(200, "not json"),
     HttpResponse(429, ""), HttpResponse(400, ""), HttpResponse(401, ""),
     HttpResponse(500, ""), TimeoutException, RequestException}

\* what response.json() returns for a JSON body
Payload == "payload"

\* a wait that does not grow with the attempt
FixedWait(delay, attempt_no) == delay

\* wait_time = self.config.retry_delay * (2 ** attempt)
wait_time(delay, attempt_no) == delay * (2 ^ attempt_no)

\* leave the function with a value
Return(value) == [do |-> "return", value |-> value, sleep |-> None]

\* time.sleep(seconds) and continue
SleepAndContinue(seconds) == [do |-> "continue", value |-> NoPayload, sleep |-> Ok(seconds)]

\* the end of an except clause on the last attempt: the loop goes on
FallThrough == [do |-> "continue", value |-> NoPayload, sleep |-> None]

\* the two except clauses: a retry after retry_delay, unless it was the last
\* attempt.  response.json() on a body that is not JSON raises
\* requests.exceptions.JSONDecodeError, a RequestException, inside the try.
HandleException(attempt_no, retries, delay) ==
    IF attempt_no < retries THEN SleepAndContinue(delay) ELSE FallThrough

\* the body of the try for a response
HandleResponse(outcome, attempt_no, retries, delay) ==
    IF outcome.status_code = 200
    THEN IF outcome.body = "json" THEN Return(Ok(Payload))
         ELSE HandleException(attempt_no, retries, delay)
    ELSE IF outcome.status_code = 429
    THEN IF attempt_no < retries
         THEN SleepAndContinue(wait_time(delay, attempt_no))
         ELSE Return(NoPayload)
    ELSE IF outcome.status_code \in {400, 401} THEN Return(NoPayload)
    ELSE IF attempt_no < retries THEN SleepAndContinue(delay)
    ELSE Return(NoPayload)

\* one pass of the for loop
HandleAttempt(outcome, attempt_no, retries, delay) ==
    IF outcome.kind = "response"
    THEN HandleResponse(outcome, attempt_no, retries, delay)
    ELSE HandleException(attempt_no, retries, delay)

\* config.max_retries goes up to MaxRetries
MaxRetries == 2

\* config.retry_delay, tenths of a second
RetryDelays == {5, 10}

InitRequest ==
    /\ pc = "idle"
    /\ exc = "none"
    /\ min_score = 6000
    /\ max_competition = "medium"
    /\ limit = 1
    /\ trend_analyses = NoAnalyses
    /\ promising = <<>>
    /\ competition_data = NoCompetition
    /\ niches = <<>>
    /\ scored = <<>>
    /\ top = <<>>
    /\ calls = <<>>
    /\ StressIdle
    /\ BatchIdle
    /\ cache = EmptyDict
    /\ access_times = <<>>
    /\ max_size = 1
    /\ now = 0
    /\ request_pc = "idle"
    /\ max_retries \in 0..MaxRetries
    /\ retry_delay \in RetryDelays
    /\ attempt = 0
    /\ responses = <<>>
    /\ sleeps = <<>>
    /\ response = NoPayload

\* _make_request is called: "for attempt in range(max_retries + 1)" begins
MakeRequest ==
    /\ request_pc = "idle"
    /\ request_pc' = "loop"
    /\ attempt' = 0
    /\ UNCHANGED <<max_retries, retry_delay, responses, sleeps, response>>
    /\ UNCHANGED evaluationVars
    /\ UNCHANGED stressVars
    /\ UNCHANGED batchVars
    /\ UNCHANGED cacheVars

\* the loop variable takes the next value of the range, or the function
\* returns
Handled(handled) ==
    /\ sleeps' = IF handled.sleep.kind = "ok" THEN Append(sleeps, handled.sleep.v)
                 ELSE sleeps
    /\ IF handled.do = "return"
       THEN /\ response' = handled.value
            /\ request_pc' = "returned"
            /\ UNCHANGED attempt
       ELSE /\ attempt' = attempt + 1
            /\ UNCHANGED <<response, request_pc>>

\* one pass of the loop: the request is sent and its outcome handled, the
\* sleep before the next pass included
Attempt(outcome) ==
    /\ request_pc = "loop"
    /\ attempt <= max_retries
    /\ responses' = Append(responses, outcome)
    /\ Handled(HandleAttempt(outcome, attempt, max_retries, retry_delay))
    /\ UNCHANGED <<max_retries, retry_delay>>
    /\ UNCHANGED evaluationVars
    /\ UNCHANGED stressVars
    /\ UNCHANGED batchVars
    /\ UNCHANGED cacheVars

\* the range is exhausted: the error is logged and None returned
GiveUp ==
    /\ request_pc = "loop"
    /\ attempt > max_retries
    /\ response' = NoPayload
    /\ request_pc' = "returned"
    /\ UNCHANGED <<max_retries, retry_delay, attempt, responses, sleeps>>
    /\ UNCHANGED evaluationVars
    /\ UNCHANGED stressVars
    /\ UNCHANGED batchVars
    /\ UNCHANGED cacheVars

NextRequest ==
    \/ MakeRequest
    \/ \E outcome \in AttemptOutcomes : Attempt(outcome)
    \/ GiveUp

SpecRequest == InitRequest /\ [][NextRequest]_vars

\* session.request is given a timeout and time.sleep a finite time: a pass
\* of the loop that has begun comes to its end
SpecRequestLive == SpecRequest /\ WF_vars(NextRequest)

----------------------------------------------------------------------------
(* Claims about the Niche entity and the evaluation *)

\* the tier thresholds as the data model states them
CompetitionTierOf(score) ==
    IF score <= 3000 THEN "low" ELSE IF score <= 6000 THEN "medium" ELSE "high"

ProfitabilityTierOf(score) ==
    IF score >= 8000 THEN "high" ELSE IF score >= 6000 THEN "medium" ELSE "low"

TierRank(level) ==
    CASE level = "low" -> 1 [] level = "medium" -> 2 [] level = "high" -> 3

Profit(i) == niches[i].profitability_score_numeric

\* C1: every Niche, after construction and after any re-scoring, carries the
\* competition tier and the profitability tier that the threshold functions
\* give for its current scores, the score 0 included.
C1_TierMatchesScore ==
    \A i \in 1..Len(niches) :
        /\ niches[i].competition_level
               = CompetitionTierOf(niches[i].competition_score_numeric)
        /\ niches[i].profitability_tier
               = ProfitabilityTierOf(niches[i].profitability_score_numeric)

\* C2: the four scores of every Niche, at construction and after every
\* re-scoring of the ranking pass, lie in [0,100].
C2_ScoresInRange ==
    \A i \in 1..Len(niches) :
        /\ niches[i].competition_score_numeric \in 0..10000
        /\ niches[i].profitability_score_numeric \in 0..10000
        /\ niches[i].market_size_score \in 0..10000
        /\ niches[i].confidence_score \in 0..10000

\* the five inputs of the profitability score and which of them are available
Available(input) ==
    {k \in {"trend_analysis", "competition_data", "market_metrics",
            "seasonal_patterns", "content_analysis"} :
        IF k = "trend_analysis" THEN input[k].present ELSE Truthy(input[k])}

\* the sub-score (hundredths) and the weight that belong to an input
SubScoreOf(input, k) ==
    CASE k = "trend_analysis" -> _score_trend_strength(input[k]).v
      [] k = "competition_data" ->
            Min(10000, CompetitionBaseScore(Get(input[k], "competitor_count", 0))
                       * ReviewMultiplier(Get(input[k], "avg_review_count", 0))
                       * RatingMultiplier(Get(input[k], "avg_rating", 0)))
      [] k = "market_metrics" -> _score_market_size(input[k]).v
      [] k = "seasonal_patterns" -> _score_seasonality(input[k]).v
      [] k = "content_analysis" -> _score_content_gaps(input[k]).v

WeightOf(k) ==
    CASE k = "trend_analysis" -> 25
      [] k = "competition_data" -> 30
      [] k = "market_metrics" -> 20
      [] k = "seasonal_patterns" -> 15
      [] k = "content_analysis" -> 10

RECURSIVE SumOfSet(_, _, _)
\* sum over the inputs in ks of weight, or of sub-score times weight
SumOfSet(input, ks, weighted) ==
    IF ks = {} THEN 0
    ELSE LET k == CHOOSE x \in ks : TRUE
         IN  (IF weighted THEN SubScoreOf(input, k) * WeightOf(k) ELSE WeightOf(k))
             + SumOfSet(input, ks \ {k}, weighted)

\* C3: the profitability score is the weighted mean of exactly the available
\* sub-scores (an unavailable input drops out of the sum and of the weight
\* total) and lies in [0,100].
C3_WeightedMeanOfAvailable ==
    \A c \in 1..Len(calls) :
        (/\ calls[c].fn = "calculate_profitability_score"
         /\ Available(calls[c].input) # {})
        => LET input == calls[c].input
               avail == Available(input)
           IN  /\ calls[c].result.kind = "ok"
               /\ calls[c].result.v \in 0..10000
               /\ calls[c].result.v
                    = SumOfSet(input, avail, TRUE) \div SumOfSet(input, avail, FALSE)

\* the end-to-end case: "gratitude journal" with trend score 80, RISING,
\* STRONG, and a competitive summary with competitor_count = 5, evaluated
\* with the default minimum 60
C4_Case ==
    /\ min_score = 6000
    /\ trend_analyses["gratitude journal"].present
    /\ trend_analyses["gratitude journal"].trend_score = 80
    /\ trend_analyses["gratitude journal"].direction = "rising"
    /\ trend_analyses["gratitude journal"].strength = "strong"
    /\ competition_data["gratitude journal"].type = "dict"
    /\ "competitor_count" \in competition_data["gratitude journal"].keys
    /\ competition_data["gratitude journal"].competitor_count = 5

\* C4: in the end-to-end case the evaluation returns a ranked list that
\* holds the Niche of the keyword, with competition tier LOW and a
\* profitability score above 60.
C4_EndToEndLowCompetition ==
    (C4_Case /\ pc \in {"raised", "returned"})
    => /\ pc = "returned"
       /\ \E k \in 1..Len(top) :
            /\ niches[top[k]].primary_keyword = "gratitude journal"
            /\ niches[top[k]].competition_level = "low"
            /\ Profit(top[k]) > 6000

C7_CompetitionScoreMonotone ==
    \A a, b \in 1..Len(calls) :
        (/\ calls[a].fn = "_score_competition_level"
         /\ calls[b].fn = "_score_competition_level"
         /\ Truthy(calls[a].input) /\ Truthy(calls[b].input)
         /\ calls[a].input.avg_review_count = calls[b].input.avg_review_count
         /\ calls[a].input.avg_rating = calls[b].input.avg_rating
         /\ calls[a].input.competitor_count <= calls[b].input.competitor_count)
        => /\ calls[a].result.kind = "ok"
           /\ calls[b].result.kind = "ok"
           /\ calls[a].result.v >= calls[b].result.v
           /\ calls[a].result.v <= 10000

----------------------------------------------------------------------------
(* Claims about the stress test *)

\* the stress test has returned after running its loop over the scenarios
LoopFinished == stress_pc = "done" /\ scenarios_to_test # <<>>

\* C8: a scenario whose simulation raises is skipped and the others are
\* still simulated: every scenario of the list is simulated in turn, the
\* results hold one entry per scenario that did not fail, in order, and the
\* test returns the aggregate report however many scenarios failed.
C8_FailedScenarioSkipped ==
    LoopFinished
    => /\ Len(attempted) = Len(scenarios_to_test)
       /\ \A k \in 1..Len(attempted) :
            attempted[k].scenario = scenarios_to_test[k].scenario
       /\ Len(scenario_results)
            = Cardinality({k \in 1..Len(attempted) : ~attempted[k].failed})
       /\ stress_result.keys = ReportKeys

\* C9: when every simulation has failed, the stress test returns a report
\* (not an error dict), the report's overall resilience is 0, and it carries
\* an entry beyond those of a normally computed report that states that no
\* scenario result was usable.
C9_ZeroSuccessfulScenarios ==
    (LoopFinished /\ scenario_results = <<>>)
    => /\ "stress_test_summary" \in stress_result.keys
       /\ "error" \notin stress_result.keys
       /\ stress_result.overall_resilience = 0
       /\ stress_result.keys \ ReportKeys # {}

\* C10: a Niche with the four scores in [0,100] and a positive overall
\* score, tested across the 8 default scenarios, gets exactly 8 scenario
\* results, one per default scenario type.
C10_EightDefaultResults ==
    (/\ LoopFinished
     /\ scenarios_to_test = DEFAULT_SCENARIOS
     /\ _validate_scores(baseline_niche)
     /\ overall_score(baseline_niche) > 0)
    => /\ Len(scenario_results) = 8
       /\ \A k \in 1..Len(scenario_results) :
            scenario_results[k].scenario = DEFAULT_SCENARIOS[k].scenario

----------------------------------------------------------------------------
(* Claims about the StressTester methods *)

\* |a - b|
AbsDiff(a, b) == IF a >= b THEN a - b ELSE b - a

\* C11: every simulation of a scenario (any type, severity in [0,1]) on a
\* Niche whose overall score is in [0,100] yields a scenario result, and in
\* it 0 <= stressed score <= recovery score <= initial score, the impact
\* percentage is in [0,100], and the resilience score is 100 x stressed
\* score / initial score up to the rounding of the three values.
C11_ScenarioResultBounds ==
    \A i \in 1..Len(calls) :
        (/\ calls[i].fn = "simulate_scenario"
         /\ calls[i].input.parameters.severity \in 0..10000
         /\ overall_score(calls[i].input.niche) \in 0..10000)
        => /\ calls[i].result.kind = "ok"
           /\ 0 <= calls[i].result.v.stressed_score
           /\ calls[i].result.v.stressed_score <= calls[i].result.v.recovery_score
           /\ calls[i].result.v.recovery_score <= calls[i].result.v.initial_score
           /\ calls[i].result.v.impact_percentage \in 0..10000
           /\ AbsDiff(calls[i].result.v.resilience_score * calls[i].result.v.initial_score,
                      10000 * calls[i].result.v.stressed_score)
                <= 10 * 10000 + 10 * calls[i].result.v.initial_score

\* the risk tier the thresholds give for overall resilience r and h
\* high-impact scenarios
RiskTierOf(r, h) ==
    IF r >= 8000 /\ h <= 1 THEN "low"
    ELSE IF r >= 6000 /\ h <= 3 THEN "medium"
    ELSE IF r >= 4000 THEN "high"
    ELSE "very_high"

\* the number of results of a list with an impact above 50 percent
HighImpactCount(results) ==
    Cardinality({k \in 1..Len(results) : results[k].impact_percentage > 5000})

\* C12: the risk tier computed for a list of scenario results is the one the
\* thresholds give for the overall resilience R of the list and the number H
\* of its results with more than 50 percent impact: R >= 80 and H <= 1 LOW,
\* otherwise R >= 60 and H <= 3 MEDIUM, otherwise R >= 40 HIGH, otherwise
\* VERY_HIGH.
C12_RiskTierFromResilience ==
    \A i \in 1..Len(calls) :
        calls[i].fn = "_determine_risk_profile"
        => /\ calls[i].result.kind = "ok"
           /\ calls[i].result.v
                = RiskTierOf(calls[i].input.overall_resilience,
                             HighImpactCount(calls[i].input.results))

\* a list with overall resilience of at least 80 and two high-impact
\* results has been given its tier, and so has one below 40
C12_Witness ==
    /\ Len(calls) = 2
    /\ calls[1].fn = "_determine_risk_profile"
    /\ calls[1].input.overall_resilience >= 8000
    /\ HighImpactCount(calls[1].input.results) = 2
    /\ calls[1].result.v = "medium"
    /\ calls[2].fn = "_determine_risk_profile"
    /\ calls[2].input.results # <<>>
    /\ calls[2].input.overall_resilience < 4000
    /\ calls[2].result.v = "very_high"

\* two simulations of MARKET_SATURATION that differ in nothing but the
\* competition score of the Niche, the first one's being the higher, and
\* neither reaching the impact cap
C13_Case(a, b) ==
    /\ calls[a].fn = "simulate_scenario"
    /\ calls[b].fn = "simulate_scenario"
    /\ calls[a].input.parameters.scenario = "market_saturation"
    /\ calls[a].input.parameters = calls[b].input.parameters
    /\ calls[a].input.trend_analysis = calls[b].input.trend_analysis
    /\ calls[a].input.niche.competition_score_numeric
         > calls[b].input.niche.competition_score_numeric
    /\ [calls[a].input.niche EXCEPT !.competition_score_numeric = 0,
                                    !.competition_level = "low"]
         = [calls[b].input.niche EXCEPT !.competition_score_numeric = 0,
                                        !.competition_level = "low"]
    /\ \A c \in {a, b} :
         /\ _calculate_stress_impact(calls[c].input.niche, calls[c].input.parameters,
                                     calls[c].input.trend_analysis).kind = "ok"
         /\ _calculate_stress_impact(calls[c].input.niche, calls[c].input.parameters,
                                     calls[c].input.trend_analysis).v < 9500

\* C13: of two MARKET_SATURATION simulations that differ only in the Niche's
\* competition score and stay below the impact cap, the one with the higher
\* competition score has the strictly greater impact percentage.
C13_SaturationImpactMonotone ==
    \A a \in 1..Len(calls), b \in 1..Len(calls) :
        C13_Case(a, b)
        => /\ calls[a].result.kind = "ok"
           /\ calls[b].result.kind = "ok"
           /\ calls[a].result.v.impact_percentage > calls[b].result.v.impact_percentage

----------------------------------------------------------------------------
(* Claims about missing data in the evaluation *)

\* the expanded keywords whose trend lookup gave no analysis
WithoutTrend == {k \in KeywordSet : ~trend_analyses[k].present}

\* step 5 of an evaluation has been taken (a direct call of the ranking
\* pass has a non-empty list of Niches and no promising keyword)
CandidateStepTaken ==
    /\ pc \in {"candidates", "raised", "scored", "returned"}
    /\ (niches = <<>> \/ promising # <<>>)

\* C14: an evaluation in which some (or all) of the expanded keywords have
\* no trend data does not raise at the candidate step, keeps none of those
\* keywords among the promising ones, and builds every candidate from a
\* keyword that has trend data.
C14_MissingTrendsDropped ==
    /\ \A i \in 1..Len(promising) : promising[i] \notin WithoutTrend
    /\ (CandidateStepTaken /\ WithoutTrend # {})
       => /\ pc # "raised"
          /\ \A i \in 1..Len(niches) : niches[i].primary_keyword \notin WithoutTrend

\* step 4 of an evaluation has been taken
CompetitionAnalysed ==
    \/ pc = "competition"
    \/ CandidateStepTaken

\* C15: after the competition analysis every promising keyword has a
\* summary, and a summary that does not come from products found (no client,
\* an empty search result, a failed search) is marked estimated = true.
C15_EstimatedSummaryWithoutData ==
    CompetitionAnalysed
    => \A i \in 1..Len(promising) :
          /\ competition_data[promising[i]].type = "dict"
          /\ \/ competition_data[promising[i]].estimated
             \/ competition_data[promising[i]].competitor_count > 0

\* the markers a Niche carries: the estimated flag of its competitor
\* summary is the only one the class has
Markers(n) ==
    IF /\ "estimated" \in n.competitor_analysis_data.keys
       /\ n.competitor_analysis_data.estimated
    THEN {"estimated"} ELSE {}

\* C16: a Niche in the returned list whose competition score was set
\* without competitor data, or whose seasonality sub-score was set without
\* seasonal data, carries an 'estimated' or 'insufficient_data' marker.
C16_DefaultsAreMarked ==
    pc = "returned"
    => \A i \in 1..Len(top) :
          (\/ ~Truthy(niches[top[i]].competitor_analysis_data)
           \/ ~Truthy(niches[top[i]].seasonal_factors))
          => Markers(niches[top[i]]) # {}

----------------------------------------------------------------------------
(* Claims about the batching of trend lookups *)

\* a lookup that has ended
Ended(k) == lookup[k] \in LookupOutcomes

\* C17: at most 5 lookups are in flight at any moment; a lookup of a batch
\* has started only when every lookup of the batches before it has ended
\* and one delay per earlier batch has elapsed; no keyword is looked up
\* twice; the procedure does not end in an exception, and when it returns
\* every keyword has been looked up exactly once.
C17_BatchedLookups ==
    /\ Cardinality({k \in 1..batch_keywords : lookup[k] = "in_flight"}) <= 5
    /\ \A k \in 1..batch_keywords :
         started[k] > 0
         => /\ delays >= BatchNumber(k)
            /\ \A j \in 1..batch_keywords : BatchNumber(j) < BatchNumber(k) => Ended(j)
    /\ \A k \in 1..batch_keywords : started[k] <= 1
    /\ batch_pc # "raised"
    /\ batch_pc = "done" => \A k \in 1..batch_keywords : started[k] = 1 /\ Ended(k)

----------------------------------------------------------------------------
(* Claims about the keyword expander *)

\* C18: the list the expander returns holds no phrase twice, holds at most
\* max_combinations phrases, and is empty for an empty seed list.
C18_ExpansionDeduplicatedAndCapped ==
    \A i \in 1..Len(calls) :
        calls[i].fn = "expand_keywords"
        => /\ \A a, b \in 1..Len(calls[i].result.v) :
                a # b => calls[i].result.v[a] # calls[i].result.v[b]
           /\ Len(calls[i].result.v) <= calls[i].input.max_combinations
           /\ calls[i].input.base_keywords = <<>> => calls[i].result.v = <<>>

\* C19: two runs of the expander on the same seed list and the same
\* max_combinations return the same list, phrase by phrase.
C19_ExpansionDeterministic ==
    \A i, j \in 1..Len(calls) :
        (/\ calls[i].fn = "expand_keywords"
         /\ calls[j].fn = "expand_keywords"
         /\ calls[i].input = calls[j].input)
        => calls[i].result = calls[j].result

----------------------------------------------------------------------------
(* Claims about the settings *)

\* the configuration rules as stated: three scoring weights that sum to 1.0
\* within the tolerance of 0.001, a known environment, a known cache type,
\* and a product-data API key when the environment is production
WeightsSumToOne(self) ==
    /\ WeightsSum(self).kind = "num"
    /\ AbsDiff(WeightsSum(self).v, 10000) <= 10

StatedRulesHold(self) ==
    /\ WeightsSumToOne(self)
    /\ self.environment \in {"development", "testing", "production"}
    /\ self.cache.cache_type \in {"file", "redis", "memory"}
    /\ self.environment = "production" => self.api.keepa_api_key \notin {Unset, ""}

\* C20: constructing the settings from values that break a validation rule
\* (weights not summing to 1.0 within tolerance, unknown environment, unknown
\* cache type, production without API key) fails with ConfigurationError; a
\* settings object that is produced satisfies the rules and holds the values
\* it was given.
C20_InvalidSettingsRejected ==
    \A i \in 1..Len(calls) :
        (calls[i].fn = "Settings.from_env" /\ ParsesOk(calls[i].input))
        => /\ ~StatedRulesHold(Fields(calls[i].input))
                => calls[i].result = Raise("ConfigurationError")
           /\ calls[i].result.kind = "ok"
                => /\ StatedRulesHold(calls[i].result.v)
                   /\ calls[i].result.v = Fields(calls[i].input)

----------------------------------------------------------------------------
(* Claims about the construction of a Niche *)

\* the data of a Niche is valid: 0 < min < max and the four scores in [0,100]
ValidNicheData(fields) ==
    /\ 0 < fields.recommended_price_range[1]
    /\ fields.recommended_price_range[1] < fields.recommended_price_range[2]
    /\ \A f \in {"competition_score_numeric", "profitability_score_numeric",
                 "market_size_score", "confidence_score"} :
           0 <= fields[f] /\ fields[f] <= 10000

\* the values a caller gives, which exclude the two derived tiers
GivenValues(n) ==
    [f \in (DOMAIN n) \ {"competition_level", "profitability_tier"} |-> n[f]]

\* C21: constructing a Niche is rejected exactly when its data is invalid
\* (price range with min >= max or a non-positive bound, a score outside
\* [0,100]); a Niche with valid data is constructed with the given values
\* unchanged.
C21_NicheRejectedIffInvalid ==
    \A i \in 1..Len(calls) :
        calls[i].fn = "Niche"
        => IF ValidNicheData(calls[i].input)
           THEN /\ calls[i].result.kind = "ok"
                /\ GivenValues(calls[i].result.v) = GivenValues(calls[i].input)
           ELSE calls[i].result = Raise("ValueError")

----------------------------------------------------------------------------
(* Claims about the sales estimate *)

\* C22: the monthly sales estimate never rises with the best-seller rank:
\* for positive ranks r1 <= r2, estimate(r1) >= estimate(r2), also across
\* the last table threshold 1,000,000 and beyond it.
C22_SalesEstimateMonotone ==
    \A i, j \in 1..Len(calls) :
        (/\ calls[i].fn = "estimate_monthly_sales"
         /\ calls[j].fn = "estimate_monthly_sales"
         /\ 0 < calls[i].input
         /\ calls[i].input <= calls[j].input)
        => /\ calls[i].result.kind = "ok"
           /\ calls[j].result.kind = "ok"
           /\ calls[i].result.v >= calls[j].result.v

----------------------------------------------------------------------------
(* Claims about the forecast of a trend analysis *)

\* a forecast is empty or has exactly 6 entries, each in [0,100]
ForecastWellFormed(forecast) ==
    \/ forecast = <<>>
    \/ /\ Len(forecast) = 6
       /\ \A m \in 1..6 : /\ forecast[m].kind = "num"
                          /\ 0 <= forecast[m].v
                          /\ forecast[m].v <= 1000000

\* C23: every trend analysis that exists has a forecast that is empty or has
\* exactly 6 entries in [0,100]; constructing one with any other forecast is
\* rejected; every forecast the trend-data client generates is of that form.
C23_ForecastEmptyOrSix ==
    \A i \in 1..Len(calls) :
        /\ calls[i].fn = "TrendAnalysis"
             => /\ calls[i].result.kind = "ok"
                     => ForecastWellFormed(calls[i].result.v.forecast_6_months)
                /\ ~ForecastWellFormed(calls[i].input.forecast_6_months)
                     => calls[i].result = Raise("ValueError")
        /\ calls[i].fn = "_generate_forecast"
             => ForecastWellFormed(calls[i].result.v)

\* a TrendAnalysis with a forecast of 6 entries exists, and the client has
\* generated a forecast whose predictions had to be clamped
C23_Witness ==
    /\ Len(calls) = 2
    /\ calls[1].fn = "TrendAnalysis"
    /\ calls[1].result.kind = "ok"
    /\ Len(calls[1].result.v.forecast_6_months) = 6
    /\ calls[2].fn = "_generate_forecast"
    /\ Len(calls[2].result.v) = 6
    /\ calls[2].input.fit.v[6] = Score(140)

----------------------------------------------------------------------------
(* Claims about the rate-limit error *)

\* C24: a rate-limit error built from service name s, retry_after r and
\* quota_type q has the error code RATE_LIMIT_EXCEEDED, the attribute
\* retry_after = r, and details that hold the service name and quota_type = q,
\* also in its serialized form.
C24_RateLimitErrorExposesArguments ==
    \A i \in 1..Len(calls) :
        calls[i].fn = "RateLimitExceededError"
        => /\ calls[i].result.error.error_code = "RATE_LIMIT_EXCEEDED"
           /\ calls[i].result.retry_after = calls[i].input.retry_after
           /\ "service" \in DOMAIN calls[i].result.error.details
           /\ calls[i].result.error.details["service"] = calls[i].input.service_name
           /\ "quota_type" \in DOMAIN calls[i].result.error.details
           /\ calls[i].result.error.details["quota_type"] = calls[i].input.quota_type
           /\ "quota_type" \in DOMAIN to_dict(calls[i].result.error).details

----------------------------------------------------------------------------
(* Claims about candidate generation and the ranking pass *)

\* competition_data.get(keyword, {})
CompetitionOf(keyword) ==
    IF competition_data[keyword].type = "absent" THEN EmptyCompetition
    ELSE competition_data[keyword]

\* C25: candidate generation does not raise on an empty list of promising
\* keywords, and the candidate list it returns has one Niche per promising
\* keyword, the i-th built from the i-th keyword's own trend analysis and
\* competition data.
C25_OneCandidatePerKeyword ==
    CandidateStepTaken
    => /\ (promising = <<>> => pc # "raised")
       /\ (pc = "candidates"
           => /\ Len(niches) = Len(promising)
              /\ \A i \in 1..Len(niches) :
                    /\ niches[i].primary_keyword = promising[i]
                    /\ niches[i].trend_analysis_data = trend_analyses[promising[i]]
                    /\ niches[i].competitor_analysis_data = CompetitionOf(promising[i]))

\* a Niche without the four fields the ranking pass assigns
WithoutScores(niche) ==
    [niche EXCEPT !.competition_score_numeric = 0,
                  !.competition_level = "",
                  !.profitability_score_numeric = 0,
                  !.profitability_tier = ""]

----------------------------------------------------------------------------
(* Claims about the in-memory cache *)

\* C27: an in-memory cache of capacity max_size >= 1 never stores more than
\* max_size entries, and the keys with a stored value are the keys with a
\* recorded access time, each once.
C27_CacheWithinCapacity ==
    /\ Cardinality(DOMAIN cache) <= max_size
    /\ DOMAIN cache = AccessKeys(access_times)
    /\ Len(access_times) = Cardinality(DOMAIN cache)

\* a set of a new key was made on a full cache of capacity 2, which is full
\* again
C27_Witness ==
    /\ max_size = 2
    /\ calls # <<>>
    /\ calls[1].fn = "set"
    /\ ~calls[1].stored
    /\ calls[1].size = 2
    /\ Cardinality(DOMAIN cache) = 2

\* the access time recorded for a stored key
AccessTime(times, key) == times[CHOOSE i \in 1..Len(times) : times[i].key = key].time

\* the step is a call on the cache (the clock stands still during a call),
\* recorded in calls'
IsCall(fn) == now' = now /\ calls'[1].fn = fn

\* the step is a set, or a get that returned a value, of the key
IsUse(key) ==
    /\ calls'[1].key = key
    /\ \/ IsCall("set")
       \/ IsCall("get") /\ calls'[1].result.kind = "ok"

\* the lookup of a key whose entry has expired returns nothing and removes
\* the entry; the lookup of a stored key before that returns its value and
\* leaves the entry
LookupRespectsExpiry(key) ==
    IF key \notin DOMAIN cache
    THEN calls'[1].result.kind = "none" /\ cache' = cache
    ELSE IF cache[key].expires_at.kind = "ok" /\ now > cache[key].expires_at.v
         THEN calls'[1].result.kind = "none" /\ cache' = Without(cache, key)
         ELSE /\ calls'[1].result.kind = "ok"
              /\ calls'[1].result.v = cache[key].value
              /\ cache' = cache

\* a set stores the value given, to expire ttl after the time of the call
SetStoresValue(key, value, ttl) ==
    /\ key \in DOMAIN cache'
    /\ cache'[key].value = value
    /\ cache'[key].expires_at = (IF ttl = None THEN None ELSE Ok(now + ttl.v))

\* an entry that stays in the cache is changed by a set of its key only
EntriesKept ==
    \A key \in DOMAIN cache \cap DOMAIN cache' :
        \/ cache'[key] = cache[key]
        \/ IsCall("set") /\ calls'[1].key = key

\* C28: a lookup never returns a value whose time-to-live has elapsed: a get
\* made after the expiry time of the entry returns nothing and removes the
\* entry, a get made before returns the value stored, and the value stored
\* is the one of the most recent set of that key, kept with its expiry time
\* by every other call and by the passing of time.
C28_LookupRespectsTimeToLive ==
    [][/\ IsCall("get") => LookupRespectsExpiry(calls'[1].key)
       /\ IsCall("set") => SetStoresValue(calls'[1].key, calls'[1].value, calls'[1].ttl)
       /\ EntriesKept]_vars

\* a get of a stored key found its entry expired and removed it
C28_Witness ==
    /\ calls # <<>>
    /\ calls[1].fn = "get"
    /\ calls[1].stored
    /\ calls[1].result.kind = "none"
    /\ calls[1].key \notin DOMAIN cache
    /\ cache # EmptyDict

\* the set of a new key into a full cache removes one entry, one whose access
\* time is the least, and leaves the other entries as they were
EvictsOldest(key) ==
    \E victim \in DOMAIN cache :
        /\ DOMAIN cache' = (DOMAIN cache \ {victim}) \cup {key}
        /\ \A k \in DOMAIN cache :
               AccessTime(access_times, victim) <= AccessTime(access_times, k)
        /\ \A k \in DOMAIN cache \ {victim} :
               /\ cache'[k] = cache[k]
               /\ AccessTime(access_times', k) = AccessTime(access_times, k)

\* the set of a stored key removes nothing and changes that key only
ReplacesOnly(key) ==
    /\ DOMAIN cache' = DOMAIN cache
    /\ \A k \in DOMAIN cache \ {key} :
           /\ cache'[k] = cache[k]
           /\ AccessTime(access_times', k) = AccessTime(access_times, k)

\* what a set does to the other entries
SetEvictsOrReplaces(key, value) ==
    /\ (key \notin DOMAIN cache /\ Cardinality(DOMAIN cache) >= max_size)
       => EvictsOldest(key)
    /\ key \in DOMAIN cache
       => (ReplacesOnly(key) /\ cache'[key].value = value)

\* the access time of a key is the time of its last set or successful get
AccessIsLastUse ==
    \A key \in DOMAIN cache' :
        IF IsUse(key) THEN AccessTime(access_times', key) = now
        ELSE AccessTime(access_times', key) = AccessTime(access_times, key)

\* C30: the set of a new key into a full cache evicts exactly one entry, the
\* one whose last access (set or successful get) is the oldest of the stored
\* entries; the set of a key that is stored evicts nothing and replaces that
\* key's value only.
C30_EvictsLeastRecentlyUsed ==
    [][/\ IsCall("set") => SetEvictsOrReplaces(calls'[1].key, calls'[1].value)
       /\ AccessIsLastUse]_vars

\* a new key was set into a full cache of capacity 2, and the entry that was
\* kept had been used before the time of the call
C30_Witness ==
    /\ max_size = 2
    /\ calls # <<>>
    /\ calls[1].fn = "set"
    /\ ~calls[1].stored
    /\ calls[1].size = 2
    /\ \E i \in 1..Len(access_times) : access_times[i].time < now

----------------------------------------------------------------------------
(* Claims about the product-data request *)

\* the attempt made at position i met a response with one of the status codes
Met(i, codes) ==
    /\ responses[i].kind = "response"
    /\ responses[i].status_code \in codes
    /\ responses[i].status_code = 200 => responses[i].body = "json"

\* no more than max_retries + 1 attempts; a 200 or a 400 or a 401 response
\* ends the call with that attempt, with the payload for 200 and null
\* otherwise; a 429 that is followed by another attempt was followed by a
\* wait of retry_delay x 2^attempt; a call that ends without a 200 response
\* returns null
RequestWithinContract ==
    /\ Len(responses) <= max_retries + 1
    /\ \A i \in 1..Len(responses) :
           /\ Met(i, {200, 400, 401})
              => /\ i = Len(responses)
                 /\ request_pc = "returned"
                 /\ IF responses[i].status_code = 200
                    THEN response.kind = "ok" /\ response.v = Payload
                    ELSE response.kind = "none"
           /\ (Met(i, {429}) /\ i < Len(responses))
              => /\ i <= Len(sleeps)
                 /\ sleeps[i] = retry_delay * (2 ^ (i - 1))
    /\ (request_pc = "returned" /\ ~\E i \in 1..Len(responses) : Met(i, {200}))
       => response.kind = "none"

\* C29: a product-data request ends after at most max_retries + 1 attempts:
\* a 200 response returns its payload at once, a 400 or 401 response returns
\* null after that one attempt, a 429 response is followed by a wait of
\* retry_delay x 2^attempt before the next attempt, and when every attempt
\* fails the call returns null; a call that has begun returns.
C29_RequestTerminates ==
    /\ []RequestWithinContract
    /\ (request_pc = "loop") ~> (request_pc = "returned")

\* every one of the three attempts was rate limited: two growing waits, then
\* null
C29_Witness ==
    /\ request_pc = "returned"
    /\ max_retries = 2
    /\ Len(responses) = 3
    /\ \A i \in 1..3 : Met(i, {429})
    /\ sleeps = <<retry_delay, 2 * retry_delay>>
    /\ response.kind = "none"

====
